---- MODULE Spec2Model ----
(***************************************************************************)
(* Model of the schema-matching and merge engine of data-bridge-frontend:  *)
(* DataTransformer / DataMerger (src/src/lib/file-utils.ts) and            *)
(* ColumnMatcher / MappingGenerator (src/src/lib/column-mapping.ts).       *)
(*                                                                         *)
(* Every operation of the engine is a static, synchronous function of its  *)
(* arguments.  A behaviour of the model is one call: Init draws the        *)
(* arguments of the call from bounded sets, the action applies the         *)
(* function as the code computes it and stores what it returns.            *)
(***************************************************************************)
EXTENDS Integers, Sequences, FiniteSets, TLC

VARIABLES
    pc,      \* "ready": the call has not run yet; "done": it has returned
    op,      \* the operation called
    args,    \* the arguments of the call
    result   \* what the call returned (NoResult before it returns)

vars == <<pc, op, args, result>>

NoResult == [none |-> TRUE]

(***************************************************************************)
(* Generic helpers for JavaScript arrays (1-based here).                   *)
(***************************************************************************)
Range(s) == {s[i] : i \in 1..Len(s)}

\* Array.prototype.indexOf, 1-based; 0 stands for the code's -1.
IndexOf(s, x) ==
    IF \E i \in 1..Len(s) : s[i] = x
    THEN CHOOSE i \in 1..Len(s) : s[i] = x /\ \A j \in 1..(i - 1) : s[j] # x
    ELSE 0

\* The index a Map built by forEach((h, i) => map.set(h, i)) holds for x:
\* the LAST position of x (a later set overwrites), 0 when x was never set.
LastIndexOf(s, x) ==
    IF \E i \in 1..Len(s) : s[i] = x
    THEN CHOOSE i \in 1..Len(s) : s[i] = x /\ \A j \in (i + 1)..Len(s) : s[j] # x
    ELSE 0

RECURSIVE Flatten(_)
Flatten(ss) == IF ss = <<>> THEN <<>> ELSE Head(ss) \o Flatten(Tail(ss))

RECURSIVE SumSeq(_)
SumSeq(s) == IF s = <<>> THEN 0 ELSE Head(s) + SumSeq(Tail(s))

Count(s, x) == Cardinality({i \in 1..Len(s) : s[i] = x})

Slice(s, n) == SubSeq(s, 1, IF n < Len(s) THEN n ELSE Len(s))

(***************************************************************************)
(* Cell values: string | number | Date | null.  A cell is its runtime type *)
(* and its String() form, so that 1 and "1" are different cells with the   *)
(* same string form.                                                       *)
(***************************************************************************)
Null == [t |-> "null", s |-> ""]
Num(s) == [t |-> "number", s |-> s]
Str(s) == [t |-> "string", s |-> s]
\* A Date cell; s is its ISO text.
Date(s) == [t |-> "date", s |-> s]

\* new Set(columnData).size: strings and numbers by value, every Date an
\* object of its own.
uniqueCount(columnData) ==
    Cardinality({value \in Range(columnData) : value.t # "date"})
    + Len(SelectSeq(columnData, LAMBDA value : value.t = "date"))

\* JavaScript truthiness of a cell: null, the number 0 and '' are falsy.
Falsy(v) == \/ v.t = "null"
            \/ (v.t = "number" /\ v.s = "0")
            \/ (v.t = "string" /\ v.s = "")

\* String(value) of a non-null cell.
String(v) == v.s

\* JSON.stringify of a cell: numbers bare, strings (and Dates, as their ISO
\* text) quoted, null as null.
JSONCell(v) ==
    IF v.t = "null" THEN <<"null", "">>
    ELSE IF v.t = "number" THEN <<"bare", v.s>>
    ELSE <<"quoted", v.s>>

JSONstringify(row) == [i \in 1..Len(row) |-> JSONCell(row[i])]

\* a.localeCompare(b) on the column names of the model: their alphabetical
\* order.
Alphabetical == <<"a", "k", "v", "w", "x", "z">>
localeCompare(a, b) == IndexOf(Alphabetical, a) - IndexOf(Alphabetical, b)

\* toUpperCase / toLowerCase on the cell texts of the model.
toUpperCase(s) == CASE s = "a" -> "A" [] s = "b" -> "B" [] s = "c" -> "C" [] OTHER -> s
toLowerCase(s) == CASE s = "A" -> "a" [] s = "B" -> "b" [] s = "C" -> "c" [] OTHER -> s

\* parseFloat(s) succeeds on the numeric texts.
IsNumericText(s) == s \in {"0", "1", "2"}

(***************************************************************************)
(* DataTransformer                                                         *)
(***************************************************************************)
\* Mutant: every transformed value comes back as its text.
applyTransformation_Text(value, transform) ==
    IF value.t = "null" THEN Null ELSE Str(String(value))

\* applyTransformation for the transforms none, uppercase, lowercase and
\* number_format (cells of the model are integers, which toFixed(2) and
\* Number() give back unchanged).
applyTransformation(value, transform) ==
    IF value.t = "null" THEN Null
    ELSE CASE transform = "uppercase" -> Str(toUpperCase(String(value)))
           [] transform = "lowercase" -> Str(toLowerCase(String(value)))
           [] transform = "number_format" ->
                IF value.t = "number" THEN value
                ELSE IF value.t = "string" /\ IsNumericText(value.s) THEN Num(value.s)
                ELSE value
           [] OTHER -> value

\* transformData(data, headers, mapping): one output column per mapping
\* entry, in mapping order.  An entry without a transform has transform
\* "absent" (undefined in the code).
transformData(data, headers, mapping) ==
    [headers |-> [i \in 1..Len(mapping) |-> mapping[i].targetColumn],
     data |-> [r \in 1..Len(data) |->
        [i \in 1..Len(mapping) |->
            LET sourceIndex == LastIndexOf(headers, mapping[i].sourceColumn)
                value == IF sourceIndex # 0 THEN data[r][sourceIndex] ELSE Null
            IN  IF value.t # "null" /\ mapping[i].transform # "absent"
                THEN applyTransformation(value, mapping[i].transform)
                ELSE value]]]

(***************************************************************************)
(* DataMerger                                                              *)
(***************************************************************************)
\* A JavaScript Map as the sequence of its entries in insertion order;
\* set() on a key the map holds replaces the value and keeps the position.
MapHas(m, key) == \E i \in 1..Len(m) : m[i].key = key
MapGet(m, key) == m[CHOOSE i \in 1..Len(m) : m[i].key = key].value
MapSet(m, key, value) ==
    IF MapHas(m, key)
    THEN [i \in 1..Len(m) |-> IF m[i].key = key THEN [key |-> key, value |-> value] ELSE m[i]]
    ELSE Append(m, [key |-> key, value |-> value])

\* The keys of columnCounts in insertion order: every column of every
\* schema, at its first occurrence.
RECURSIVE FirstOccurrences(_)
FirstOccurrences(s) ==
    IF s = <<>> THEN <<>>
    ELSE LET init == FirstOccurrences(SubSeq(s, 1, Len(s) - 1))
             x == s[Len(s)]
         IN  IF x \in Range(init) THEN init ELSE Append(init, x)

\* columnCounts.get(column): incremented once per occurrence of the column
\* in any schema.
columnCounts(schemas, column) == Count(Flatten(schemas), column)

\* Mutant: the comparator without its alphabetical tie-break.
compareColumns_CountOnly(schemas, a, b) ==
    columnCounts(schemas, b) - columnCounts(schemas, a)

\* The comparator of the sort: (a, b) => countDiff !== 0 ? countDiff :
\* a.localeCompare(b), with countDiff = count(b) - count(a).
compareColumns(schemas, a, b) ==
    LET countDiff == columnCounts(schemas, b) - columnCounts(schemas, a)
    IN  IF countDiff # 0 THEN countDiff ELSE localeCompare(a, b)

\* Array.prototype.sort (stable) of the keys by compareColumns.
RECURSIVE insertColumn(_, _, _)
insertColumn(sorted, x, schemas) ==
    IF sorted = <<>> THEN <<x>>
    ELSE IF compareColumns(schemas, x, Head(sorted)) < 0 THEN <<x>> \o sorted
    ELSE <<Head(sorted)>> \o insertColumn(Tail(sorted), x, schemas)

RECURSIVE sortColumns(_, _)
sortColumns(keys, schemas) ==
    IF keys = <<>> THEN <<>>
    ELSE insertColumn(sortColumns(SubSeq(keys, 1, Len(keys) - 1), schemas),
                      keys[Len(keys)], schemas)

createUnifiedSchema(schemas) ==
    sortColumns(FirstOccurrences(Flatten(schemas)), schemas)

\* Mutant: the rows are taken position by position, whatever the headers.
alignDataToSchema_Positional(data, currentHeaders, unifiedHeaders) ==
    [r \in 1..Len(data) |->
        [h \in 1..Len(unifiedHeaders) |->
            IF h <= Len(currentHeaders) THEN data[r][h] ELSE Null]]

alignDataToSchema(data, currentHeaders, unifiedHeaders) ==
    [r \in 1..Len(data) |->
        [h \in 1..Len(unifiedHeaders) |->
            LET index == LastIndexOf(currentHeaders, unifiedHeaders[h])
            IN  IF index # 0 THEN data[r][index] ELSE Null]]

\* Mutant: a left value that is 0 or '' counts as missing, as null does.
mergeRows_Falsy(leftRow, rightRow, headers) ==
    [i \in 1..Len(headers) |->
        LET fromLeft == IF leftRow # <<>> /\ i <= Len(leftRow[1]) THEN leftRow[1][i] ELSE Null
        IN  IF Falsy(fromLeft) /\ rightRow # <<>> /\ i <= Len(rightRow[1])
            THEN rightRow[1][i]
            ELSE fromLeft]



\* mergeRows(leftRow, rightRow, headers); a row that is null in the code is
\* the empty option <<>>, a present row r is <<r>>.
mergeRows(leftRow, rightRow, headers) ==
    [i \in 1..Len(headers) |->
        LET fromLeft == IF leftRow # <<>> /\ i <= Len(leftRow[1]) THEN leftRow[1][i] ELSE Null
        IN  IF fromLeft.t = "null" /\ rightRow # <<>> /\ i <= Len(rightRow[1])
            THEN rightRow[1][i]
            ELSE fromLeft]

\* const key = String(row[joinKeyIndex] || '')
lookupKey(row, joinKeyIndex) ==
    IF Falsy(row[joinKeyIndex]) THEN "" ELSE String(row[joinKeyIndex])

RECURSIVE buildLookup(_, _)
buildLookup(data, joinKeyIndex) ==
    IF data = <<>> THEN <<>>
    ELSE MapSet(buildLookup(SubSeq(data, 1, Len(data) - 1), joinKeyIndex),
                lookupKey(data[Len(data)], joinKeyIndex), data[Len(data)])

\* map.get(key) || null
GetOrNull(m, key) == IF MapHas(m, key) THEN <<MapGet(m, key)>> ELSE <<>>

\* Mutant: the right keys without a match are counted as dropped too.
innerDropped_BothSides(leftMap, rightMap) ==
    Len(SelectSeq(leftMap, LAMBDA e : ~MapHas(rightMap, e.key)))
    + Len(SelectSeq(rightMap, LAMBDA e : ~MapHas(leftMap, e.key)))

\* case 'inner': droppedRows++ for each left key the right map does not have.
innerDropped(leftMap, rightMap) ==
    Len(SelectSeq(leftMap, LAMBDA e : ~MapHas(rightMap, e.key)))

performKeyBasedJoin(leftData, rightData, headers, joinKey, joinType) ==
    LET joinKeyIndex == IndexOf(headers, joinKey)
        leftMap == buildLookup(leftData, joinKeyIndex)
        rightMap == buildLookup(rightData, joinKeyIndex)
        matched == SelectSeq(leftMap, LAMBDA e : MapHas(rightMap, e.key))
        rightOnly == SelectSeq(rightMap, LAMBDA e : ~MapHas(leftMap, e.key))
        leftRows(m) == [i \in 1..Len(m) |->
                          mergeRows(<<m[i].value>>, GetOrNull(rightMap, m[i].key), headers)]
        rightRows(m) == [i \in 1..Len(m) |->
                          mergeRows(GetOrNull(leftMap, m[i].key), <<m[i].value>>, headers)]
    IN  IF joinKeyIndex = 0
        THEN [data |-> leftData \o rightData, droppedRows |-> 0]
        ELSE CASE joinType = "inner" ->
                    [data |-> leftRows(matched),
                     droppedRows |-> innerDropped(leftMap, rightMap)]
               [] joinType = "left" ->
                    [data |-> leftRows(leftMap), droppedRows |-> 0]
               [] joinType = "right" ->
                    [data |-> rightRows(rightMap), droppedRows |-> 0]
               [] joinType = "full" ->
                    [data |-> leftRows(leftMap) \o rightRows(rightOnly), droppedRows |-> 0]

\* handleDuplicates(data, strategy): seen maps JSON.stringify(row) to the
\* row's index in result; seenKeys[i] is the key whose index is i.
RECURSIVE dedupe(_, _)
dedupe(data, strategy) ==
    IF data = <<>> THEN [result |-> <<>>, seenKeys |-> <<>>, duplicatesRemoved |-> 0]
    ELSE LET acc == dedupe(SubSeq(data, 1, Len(data) - 1), strategy)
             row == data[Len(data)]
             key == JSONstringify(row)
             prevIndex == IndexOf(acc.seenKeys, key)
         IN  IF prevIndex # 0
             THEN [result |-> IF strategy = "keep_last"
                              THEN [acc.result EXCEPT ![prevIndex] = row]
                              ELSE acc.result,
                   seenKeys |-> acc.seenKeys,
                   duplicatesRemoved |-> acc.duplicatesRemoved + 1]
             ELSE [result |-> Append(acc.result, row),
                   seenKeys |-> Append(acc.seenKeys, key),
                   duplicatesRemoved |-> acc.duplicatesRemoved]

handleDuplicates(data, strategy) ==
    IF strategy = "keep_first"
    THEN [data |-> data, duplicatesRemoved |-> 0]
    ELSE [data |-> dedupe(data, strategy).result,
          duplicatesRemoved |-> dedupe(data, strategy).duplicatesRemoved]

\* The inner/left branch of performMerge after the files 1..i: the first
\* file's aligned rows, then each further file joined on the key or appended.
RECURSIVE mergeInto(_, _, _, _)
mergeInto(transformedFiles, unifiedHeaders, options, i) ==
    LET currentFile == transformedFiles[i]
        alignedData == alignDataToSchema(currentFile.data, currentFile.headers, unifiedHeaders)
    IN  IF i = 1
        THEN [mergedData |-> alignedData, droppedRows |-> 0]
        ELSE LET acc == mergeInto(transformedFiles, unifiedHeaders, options, i - 1)
             IN  IF options.joinKey # <<>> /\ options.joinKey[1] # ""
                 THEN LET joinResult == performKeyBasedJoin(acc.mergedData, alignedData,
                                            unifiedHeaders, options.joinKey[1], options.joinType)
                      IN  [mergedData |-> joinResult.data,
                           droppedRows |-> acc.droppedRows + joinResult.droppedRows]
                 ELSE [mergedData |-> acc.mergedData \o alignedData,
                       droppedRows |-> acc.droppedRows]

\* Mutant: right and full go through the key-based join as inner and left do.
joinFiles_JoinsAll(transformedFiles, unifiedHeaders, options) ==
    mergeInto(transformedFiles, unifiedHeaders, options, Len(transformedFiles))

\* The rows of performMerge before duplicate handling, and the rows the join
\* dropped.
joinFiles(transformedFiles, unifiedHeaders, options) ==
    IF options.joinType \in {"inner", "left"}
    THEN mergeInto(transformedFiles, unifiedHeaders, options, Len(transformedFiles))
    ELSE [mergedData |-> Flatten([i \in 1..Len(transformedFiles) |->
                            alignDataToSchema(transformedFiles[i].data,
                                              transformedFiles[i].headers, unifiedHeaders)]),
          droppedRows |-> 0]

\* if (options.maxRows && mergedData.length > options.maxRows)
exceedsMaxRows(options, length) ==
    options.maxRows # <<>> /\ options.maxRows[1] # 0 /\ length > options.maxRows[1]

\* Mutant: the rows that hold a null are counted, not the null cells.
countNulls_Rows(data) ==
    Cardinality({r \in 1..Len(data) : \E i \in 1..Len(data[r]) : data[r][i].t = "null"})

countNulls(data) ==
    SumSeq([r \in 1..Len(data) |-> Cardinality({i \in 1..Len(data[r]) : data[r][i].t = "null"})])

performMerge(transformedFiles, unifiedHeaders, options) ==
    LET joined == joinFiles(transformedFiles, unifiedHeaders, options)
        totalRows == SumSeq([i \in 1..Len(transformedFiles) |-> Len(transformedFiles[i].data)])
        deduped == IF options.handleDuplicates # "keep_first"
                   THEN handleDuplicates(joined.mergedData, options.handleDuplicates)
                   ELSE [data |-> joined.mergedData, duplicatesRemoved |-> 0]
        nullValues == countNulls(deduped.data)
        capped == exceedsMaxRows(options, Len(deduped.data))
        mergedData == IF capped THEN Slice(deduped.data, options.maxRows[1]) ELSE deduped.data
        droppedRows == IF capped
                       THEN joined.droppedRows + (totalRows - options.maxRows[1])
                       ELSE joined.droppedRows
    IN  [data |-> mergedData,
         stats |-> [totalRows |-> totalRows,
                    mergedRows |-> Len(mergedData),
                    droppedRows |-> droppedRows,
                    duplicateRows |-> deduped.duplicatesRemoved,
                    nullValues |-> nullValues]]

\* A record of the dataset: record[header] = row[index] for each header.
convertToRecordFormat(data, headers) ==
    [r \in 1..Len(data) |->
        [h \in Range(headers) |-> data[r][LastIndexOf(headers, h)]]]

\* DataMerger.detectColumnTypes; confidence is the fraction num/den.
mergedColumnType(data, headers, index) ==
    LET columnData == SelectSeq([r \in 1..Len(data) |-> data[r][index]],
                                LAMBDA val : val.t # "null")
        n == Len(columnData)
        numberCount == Len(SelectSeq(columnData, LAMBDA val : val.t = "number"))
        dateCount == Len(SelectSeq(columnData, LAMBDA val : val.t = "date"))
        stringCount == Len(SelectSeq(columnData, LAMBDA val : val.t = "string"))
        typed == IF n = 0 THEN [type |-> "unknown", confidence |-> [num |-> 0, den |-> 1]]
                 ELSE IF numberCount * 10 > 8 * n
                      THEN [type |-> "number", confidence |-> [num |-> numberCount, den |-> n]]
                 ELSE IF dateCount * 10 > 8 * n
                      THEN [type |-> "date", confidence |-> [num |-> dateCount, den |-> n]]
                 ELSE IF stringCount * 10 > 8 * n
                      THEN [type |-> "string", confidence |-> [num |-> stringCount, den |-> n]]
                 ELSE [type |-> "mixed", confidence |-> [num |-> 1, den |-> 2]]
    IN  [name |-> headers[index],
         type |-> typed.type,
         confidence |-> typed.confidence,
         samples |-> Slice(columnData, 10),
         nullCount |-> Len(data) - n,
         uniqueCount |-> uniqueCount(columnData)]

mergedColumnTypes(data, headers) ==
    [index \in 1..Len(headers) |-> mergedColumnType(data, headers, index)]

\* files.find(f => f.id === mapping.sourceFileId): the first such file, as
\* an option.
findFile(files, sourceFileId) ==
    LET hits == SelectSeq(files, LAMBDA f : f.id = sourceFileId)
    IN  IF hits = <<>> THEN <<>> ELSE <<hits[1]>>

\* !file || !file.parsedData
unresolved(files, mapping) ==
    \/ findFile(files, mapping.sourceFileId) = <<>>
    \/ findFile(files, mapping.sourceFileId)[1].parsedData = <<>>

\* The loop over the mappings: the transformed files, in mapping order.
transformFiles(files, mappings) ==
    LET resolved == SelectSeq(mappings, LAMBDA m : ~unresolved(files, m))
    IN  [i \in 1..Len(resolved) |->
            LET file == findFile(files, resolved[i].sourceFileId)[1]
                transformed == transformData(file.parsedData[1].rows,
                                             file.parsedData[1].headers, resolved[i].mappings)
            IN  [file |-> file.id, headers |-> transformed.headers, data |-> transformed.data]]

\* Mutant: only the first skipped mapping is warned about.
skipWarnings_OnlyFirst(files, mappings) ==
    LET skipped == SelectSeq(mappings, LAMBDA m : unresolved(files, m))
    IN  [i \in 1..(IF skipped = <<>> THEN 0 ELSE 1) |->
            [text |-> "not found or has no data", file |-> skipped[i].sourceFileId]]

\* The loop over the mappings: one warning per mapping skipped.
skipWarnings(files, mappings) ==
    LET skipped == SelectSeq(mappings, LAMBDA m : unresolved(files, m))
    IN  [i \in 1..Len(skipped) |-> [text |-> "not found or has no data",
                                    file |-> skipped[i].sourceFileId]]

\* Mutant: the check for no transformed file is lost.
noValidFiles_Lost(transformedFiles) == FALSE

\* if (transformedFiles.length === 0) throw ...
noValidFiles(transformedFiles) == Len(transformedFiles) = 0

\* The error the try block of mergeFiles throws, as an option.  Reading
\* baseFile.data of an undefined baseFile is the TypeError of performMerge on
\* no transformed file.
thrownError(files, mappings, options) ==
    IF Len(files) = 0 THEN <<"No files provided for merging">>
    ELSE IF Len(mappings) = 0 THEN <<"No column mappings provided">>
    ELSE IF noValidFiles(transformFiles(files, mappings))
         THEN <<"No valid files to merge after transformation">>
    ELSE IF transformFiles(files, mappings) = <<>> /\ options.joinType \in {"inner", "left"}
         THEN <<"Cannot read properties of undefined">>
    ELSE <<>>

mergeFiles(files, mappings, options) ==
    LET thrown == thrownError(files, mappings, options)
        \* the warnings pushed before the throw: those of the loop, if it ran
        warnings == IF Len(files) = 0 \/ Len(mappings) = 0 THEN <<>>
                    ELSE skipWarnings(files, mappings)
    IN  IF thrown # <<>>
        THEN [dataset |-> [name |-> "Failed Merge",
                           sourceFiles |-> [i \in 1..Len(files) |-> files[i].id],
                           headers |-> <<>>, data |-> <<>>, columnTypes |-> <<>>,
                           rowCount |-> 0],
         stats |-> [totalRows |-> 0, mergedRows |-> 0, droppedRows |-> 0,
                         duplicateRows |-> 0, nullValues |-> 0],
              warnings |-> warnings,
              errors |-> <<thrown[1]>>]
        ELSE LET transformedFiles == transformFiles(files, mappings)
                 unifiedHeaders == createUnifiedSchema(
                     [i \in 1..Len(transformedFiles) |-> transformedFiles[i].headers])
                 mergeResult == performMerge(transformedFiles, unifiedHeaders, options)
             IN  [dataset |-> [name |-> "Merged Dataset",
                               sourceFiles |-> [i \in 1..Len(files) |-> files[i].id],
                               headers |-> unifiedHeaders,
                               data |-> convertToRecordFormat(mergeResult.data, unifiedHeaders),
                               columnTypes |-> mergedColumnTypes(mergeResult.data, unifiedHeaders),
                               rowCount |-> Len(mergeResult.data)],
                  stats |-> mergeResult.stats,
                  warnings |-> warnings,
                  errors |-> <<>>]

(***************************************************************************)
(* MappingGenerator.validateMapping                                        *)
(***************************************************************************)
\* The error strings, as the kind of the error and the column it names.
SourceColumnMissing(column) == [error |-> "does not exist in file", column |-> column]
TargetColumnMissing(column) == [error |-> "does not exist in target file", column |-> column]
MappedMultipleTimes(column) == [error |-> "is mapped multiple times", column |-> column]

\* Mutant: a target column counts as duplicated from the third mapping on.
isDuplicated_OffByOne(count) == count > 2

\* if (count > 1)
isDuplicated(count) == count > 1

\* validateMapping(mapping, sourceFile, targetFile?); an absent targetFile
\* is the empty option <<>>.
validateMapping(mapping, sourceFile, targetFile) ==
    IF sourceFile.parsedData = <<>>
    THEN <<[error |-> "Source file has no parsed data", column |-> ""]>>
    ELSE LET entries == mapping.mappings
             sourceColumns == sourceFile.parsedData[1].headers
             badSources == SelectSeq(entries, LAMBDA map : map.sourceColumn \notin Range(sourceColumns))
             sourceErrors == [i \in 1..Len(badSources) |->
                                 SourceColumnMissing(badSources[i].sourceColumn)]
             badTargets ==
                 IF targetFile # <<>> /\ targetFile[1].parsedData # <<>>
                 THEN SelectSeq(entries, LAMBDA map :
                          map.targetColumn \notin Range(targetFile[1].parsedData[1].headers))
                 ELSE <<>>
             targetErrors == [i \in 1..Len(badTargets) |->
                                 TargetColumnMissing(badTargets[i].targetColumn)]
             targets == [i \in 1..Len(entries) |-> entries[i].targetColumn]
             \* the keys of targetColumnCounts, in insertion order
             duplicated == SelectSeq(FirstOccurrences(targets),
                                     LAMBDA column : isDuplicated(Count(targets, column)))
             duplicateErrors == [i \in 1..Len(duplicated) |-> MappedMultipleTimes(duplicated[i])]
         IN  sourceErrors \o targetErrors \o duplicateErrors
(***************************************************************************)
(* ColumnMatcher.  A column name is the sequence of its characters.        *)
(***************************************************************************)
\* toLowerCase of a character.
lowerChar(c) ==
    CASE c = "D" -> "d" [] c = "I" -> "i" [] c = "K" -> "k" [] c = "O" -> "o"
      [] OTHER -> c

\* The characters of [_\-\s].
isSeparator(c) == c \in {"_", "-", " "}

\* replace(/[_\-\s]+/g, ' '): every run of separators becomes one space.
RECURSIVE collapseSeparators(_)
collapseSeparators(s) ==
    IF s = <<>> THEN <<>>
    ELSE IF isSeparator(Head(s))
         THEN IF Len(s) > 1 /\ isSeparator(s[2])
              THEN collapseSeparators(Tail(s))
              ELSE <<" ">> \o collapseSeparators(Tail(s))
         ELSE <<Head(s)>> \o collapseSeparators(Tail(s))

\* split(' '): the pieces between the spaces (empty pieces included).
RECURSIVE split(_)
split(s) ==
    IF \A i \in 1..Len(s) : s[i] # " " THEN <<s>>
    ELSE LET i == CHOOSE i \in 1..Len(s) : s[i] = " " /\ \A j \in 1..(i - 1) : s[j] # " "
         IN  <<SubSeq(s, 1, i - 1)>> \o split(SubSeq(s, i + 1, Len(s)))

\* join(' ')
RECURSIVE join(_)
join(words) ==
    IF words = <<>> THEN <<>>
    ELSE IF Len(words) = 1 THEN words[1]
    ELSE words[1] \o <<" ">> \o join(Tail(words))

\* replace(/\b(v1|v2|...)\b/g, canonical) on a name of letters, digits and
\* single spaces: a match between two word boundaries is a whole word.
replaceTerms(s, variants, canonical) ==
    LET words == split(s)
    IN  join([i \in 1..Len(words) |->
                 IF words[i] \in variants THEN canonical ELSE words[i]])

\* trim()
RECURSIVE trim(_)
trim(s) ==
    IF s # <<>> /\ Head(s) = " " THEN trim(Tail(s))
    ELSE IF s # <<>> /\ s[Len(s)] = " " THEN trim(SubSeq(s, 1, Len(s) - 1))
    ELSE s
identifierTerms == {<<"i", "d">>, <<"n", "o">>, <<"n", "u", "m">>, <<"n", "u", "m", "b", "e", "r">>, <<"c", "o", "d", "e">>}
identifierTerm == <<"i", "d", "e", "n", "t", "i", "f", "i", "e", "r">>
nameTerms == {<<"n", "a", "m", "e">>, <<"t", "i", "t", "l", "e">>, <<"l", "a", "b", "e", "l">>}
nameTerm == <<"n", "a", "m", "e">>
dateTerms == {<<"d", "a", "t", "e">>, <<"t", "i", "m", "e">>, <<"t", "i", "m", "e", "s", "t", "a", "m", "p">>}
dateTerm == <<"d", "a", "t", "e">>
amountTerms == {<<"a", "m", "o", "u", "n", "t">>, <<"v", "a", "l", "u", "e">>, <<"p", "r", "i", "c", "e">>, <<"c", "o", "s", "t">>}
amountTerm == <<"a", "m", "o", "u", "n", "t">>
emailTerms == {<<"e", "m", "a", "i", "l">>, <<"m", "a", "i", "l">>}
emailTerm == <<"e", "m", "a", "i", "l">>
phoneTerms == {<<"p", "h", "o", "n", "e">>, <<"t", "e", "l">>, <<"t", "e", "l", "e", "p", "h", "o", "n", "e">>}
phoneTerm == <<"p", "h", "o", "n", "e">>

normalizeColumnName(name) ==
    LET lowered == [i \in 1..Len(name) |-> lowerChar(name[i])]
        spaced == collapseSeparators(lowered)
        r1 == replaceTerms(spaced, identifierTerms, identifierTerm)
        r2 == replaceTerms(r1, nameTerms, nameTerm)
        r3 == replaceTerms(r2, dateTerms, dateTerm)
        r4 == replaceTerms(r3, amountTerms, amountTerm)
        r5 == replaceTerms(r4, emailTerms, emailTerm)
        r6 == replaceTerms(r5, phoneTerms, phoneTerm)
    IN  trim(r6)

\* The collection the Fuse index is built over: the normalized name and the
\* position of every target column.
searchableColumns(targetColumns) ==
    [i \in 1..Len(targetColumns) |->
        [name |-> normalizeColumnName(targetColumns[i]), index |-> i - 1]]

\* String.prototype.includes
includes(s, sub) ==
    \E i \in 0..(Len(s) - Len(sub)) : SubSeq(s, i + 1, i + Len(sub)) = sub

\* getCommonPatterns(), in the order of Object.entries.
commonPatterns == <<
    [pattern |-> "identifier", variants |->
      <<<<"i", "d">>,
      <<"i", "d", "e", "n", "t", "i", "f", "i", "e", "r">>,
      <<"k", "e", "y">>,
      <<"c", "o", "d", "e">>,
      <<"n", "u", "m">>,
      <<"r", "e", "f">>>>],
    [pattern |-> "name", variants |->
      <<<<"n", "a", "m", "e">>,
      <<"t", "i", "t", "l", "e">>,
      <<"l", "a", "b", "e", "l">>,
      <<"d", "e", "s", "c", "r", "i", "p", "t", "i", "o", "n">>>>],
    [pattern |-> "date", variants |->
      <<<<"d", "a", "t", "e">>,
      <<"t", "i", "m", "e">>,
      <<"c", "r", "e", "a", "t", "e", "d">>,
      <<"u", "p", "d", "a", "t", "e", "d">>,
      <<"m", "o", "d", "i", "f", "i", "e", "d">>>>],
    [pattern |-> "amount", variants |->
      <<<<"a", "m", "o", "u", "n", "t">>,
      <<"v", "a", "l", "u", "e">>,
      <<"p", "r", "i", "c", "e">>,
      <<"c", "o", "s", "t">>,
      <<"t", "o", "t", "a", "l">>,
      <<"s", "u", "m">>>>],
    [pattern |-> "contact", variants |->
      <<<<"e", "m", "a", "i", "l">>,
      <<"p", "h", "o", "n", "e">>,
      <<"a", "d", "d", "r", "e", "s", "s">>,
      <<"c", "o", "n", "t", "a", "c", "t">>>>],
    [pattern |-> "status", variants |->
      <<<<"s", "t", "a", "t", "u", "s">>,
      <<"s", "t", "a", "t", "e">>,
      <<"f", "l", "a", "g">>,
      <<"a", "c", "t", "i", "v", "e">>,
      <<"e", "n", "a", "b", "l", "e", "d">>>>],
    [pattern |-> "count", variants |->
      <<<<"c", "o", "u", "n", "t">>,
      <<"q", "u", "a", "n", "t", "i", "t", "y">>,
      <<"q", "t", "y">>,
      <<"n", "u", "m", "b", "e", "r">>,
      <<"t", "o", "t", "a", "l">>>>],
    [pattern |-> "category", variants |->
      <<<<"c", "a", "t", "e", "g", "o", "r", "y">>,
      <<"t", "y", "p", "e">>,
      <<"g", "r", "o", "u", "p">>,
      <<"c", "l", "a", "s", "s">>,
      <<"k", "i", "n", "d">>>>]
>>

\* levenshteinDistance(str1, str2): the matrix the code fills.
levenshteinDistance(str1, str2) ==
    LET matrix[i \in 0..Len(str2), j \in 0..Len(str1)] ==
            IF i = 0 THEN j
            ELSE IF j = 0 THEN i
            ELSE IF str2[i] = str1[j] THEN matrix[i - 1, j - 1]
            ELSE LET substitution == matrix[i - 1, j - 1] + 1
                     insertion == matrix[i, j - 1] + 1
                     deletion == matrix[i - 1, j] + 1
                     m == IF substitution <= insertion THEN substitution ELSE insertion
                 IN  IF m <= deletion THEN m ELSE deletion
    IN  matrix[Len(str2), Len(str1)]

\* Similarities are exact fractions num / den with den > 0.
Fraction(num, den) == [num |-> num, den |-> den]

Greater(p, q) == p.num * q.den > q.num * p.den

One == Fraction(1, 1)

\* calculateWordOrderSimilarity: intersection.length / union.length
calculateWordOrderSimilarity(sourceWords, targetWords) ==
    LET intersection == SelectSeq(sourceWords, LAMBDA word : word \in Range(targetWords))
        union == Range(sourceWords) \cup Range(targetWords)
    IN  Fraction(Len(intersection), Cardinality(union))

\* calculateSemanticSimilarity:
\* min(baseSimilarity + 0.3 + wordOrderSimilarity * 0.2, 1.0)
calculateSemanticSimilarity(source, target) ==
    LET maxLength == IF Len(source) >= Len(target) THEN Len(source) ELSE Len(target)
        distance == levenshteinDistance(source, target)
        wordOrder == calculateWordOrderSimilarity(split(source), split(target))
        sum == Fraction(  10 * wordOrder.den * (maxLength - distance)
                        + 3 * maxLength * wordOrder.den
                        + 2 * maxLength * wordOrder.num,
                        10 * maxLength * wordOrder.den)
    IN  IF Greater(sum, One) THEN One ELSE sum

\* variants.some(variant => name.includes(variant))
matchesPattern(name, variants) ==
    \E i \in 1..Len(variants) : includes(name, variants[i])

\* The suggestions one pattern contributes (the body of the loop over the
\* patterns); allItems is what fuse.search('') returned.
patternSuggestions(originalColumn, normalizedSource, allItems, variants) ==
    IF ~matchesPattern(normalizedSource, variants) THEN <<>>
    ELSE LET targetMatches == SelectSeq(allItems, LAMBDA item : matchesPattern(item.name, variants))
             kept == SelectSeq(targetMatches, LAMBDA target :
                        Greater(calculateSemanticSimilarity(normalizedSource, target.name),
                                Fraction(6, 10)))
         IN  [i \in 1..Len(kept) |->
                [sourceColumn |-> originalColumn,
                 targetColumn |-> kept[i].name,
                 similarity |-> calculateSemanticSimilarity(normalizedSource, kept[i].name),
                 matchType |-> "semantic"]]

findSemanticMatches(originalColumn, normalizedSource, allItems) ==
    Flatten([p \in 1..Len(commonPatterns) |->
                patternSuggestions(originalColumn, normalizedSource, allItems,
                                   commonPatterns[p].variants)])

\* findExactMatch: the best hit of the search when its score is 0.
findExactMatch(normalizedSource, searchResults) ==
    LET exactMatches == Slice(searchResults, 1)
    IN  IF Len(exactMatches) > 0 /\ exactMatches[1].score = 0
        THEN <<[sourceColumn |-> normalizedSource,
                targetColumn |-> exactMatches[1].item.name,
                similarity |-> One,
                matchType |-> "exact"]>>
        ELSE <<>>

\* push unless a suggestion with the same targetColumn is already there.
RECURSIVE pushNew(_, _)
pushNew(suggestions, more) ==
    IF more = <<>> THEN suggestions
    ELSE IF \E i \in 1..Len(suggestions) :
                suggestions[i].targetColumn = Head(more).targetColumn
         THEN pushNew(suggestions, Tail(more))
         ELSE pushNew(Append(suggestions, Head(more)), Tail(more))

\* Mutant: an unstable sort, which puts a suggestion in front of the earlier
\* ones of the same similarity.
RECURSIVE insertSuggestion_Unstable(_, _)
insertSuggestion_Unstable(sorted, x) ==
    IF sorted = <<>> THEN <<x>>
    ELSE IF ~Greater(Head(sorted).similarity, x.similarity)
         THEN <<x>> \o sorted
         ELSE <<Head(sorted)>> \o insertSuggestion_Unstable(Tail(sorted), x)

\* sort((a, b) => b.similarity - a.similarity), a stable sort.
RECURSIVE insertSuggestion(_, _)
insertSuggestion(sorted, x) ==
    IF sorted = <<>> THEN <<x>>
    ELSE IF Greater(x.similarity, Head(sorted).similarity)
         THEN <<x>> \o sorted
         ELSE <<Head(sorted)>> \o insertSuggestion(Tail(sorted), x)

RECURSIVE sortSuggestions(_)
sortSuggestions(suggestions) ==
    IF suggestions = <<>> THEN <<>>
    ELSE insertSuggestion(sortSuggestions(SubSeq(suggestions, 1, Len(suggestions) - 1)),
                          suggestions[Len(suggestions)])

\* findMatches(sourceColumn, limit).  searchResults is what
\* fuse.search(normalizedSource) returns (scores in tenths) and allItems what
\* fuse.search('') returns.
findMatches(sourceColumn, limit, searchResults, allItems) ==
    LET normalizedSource == normalizeColumnName(sourceColumn)
        exactMatch == findExactMatch(normalizedSource, searchResults)
        fuzzyMatches == Slice(searchResults, limit)
        fuzzy == [i \in 1..Len(fuzzyMatches) |->
                    [sourceColumn |-> sourceColumn,
                     targetColumn |-> fuzzyMatches[i].item.name,
                     similarity |-> Fraction(10 - fuzzyMatches[i].score, 10),
                     matchType |-> "fuzzy"]]
        semanticMatches == findSemanticMatches(sourceColumn, normalizedSource, allItems)
        suggestions == pushNew(pushNew(exactMatch, fuzzy), semanticMatches)
    IN  Slice(sortSuggestions(suggestions), limit)


(***************************************************************************)
(* DataTypeDetector and MappingGenerator.generateAutoMappings              *)
(***************************************************************************)
DataTypes == {"string", "number", "date", "boolean", "mixed", "unknown"}

\* Mutant: strings are accepted wherever something is accepted as a string.
compatibleTypes_Symmetric(sourceType) ==
    IF sourceType = "boolean" THEN {"string", "number", "mixed", "unknown"}
    ELSE {"string", "number", "date", "boolean", "mixed", "unknown"}

\* The table compatibleTypes: the target types each source type accepts.
compatibleTypes(sourceType) ==
    CASE sourceType = "string" -> {"mixed", "unknown"}
      [] sourceType = "number" -> {"string", "mixed", "unknown"}
      [] sourceType = "date" -> {"string", "mixed", "unknown"}
      [] sourceType = "boolean" -> {"string", "number", "mixed", "unknown"}
      [] sourceType = "mixed" -> {"string", "number", "date", "boolean", "unknown"}
      [] sourceType = "unknown" -> {"string", "number", "date", "boolean", "mixed"}
      [] OTHER -> {}

areTypesCompatible(sourceType, targetType) ==
    IF sourceType = targetType THEN TRUE
    ELSE targetType \in compatibleTypes(sourceType)

\* Mutant: no transform is ever recommended.
getRecommendedTransform_NoFormat(sourceType, targetType) == "none"

getRecommendedTransform(sourceType, targetType) ==
    IF sourceType = targetType THEN "none"
    ELSE IF sourceType = "string" /\ targetType = "string" THEN "none"
    ELSE IF sourceType = "date" /\ targetType = "string" THEN "date_format"
    ELSE IF sourceType = "number" /\ targetType = "string" THEN "number_format"
    ELSE "none"

\* columnTypes.find(c => c.name === name): the first descriptor of that
\* name, if there is one.
findColumnType(columnTypes, name) ==
    LET found == SelectSeq(columnTypes, LAMBDA c : c.name = name)
    IN  Slice(found, 1)

\* suggestions[0].similarity >= confidenceThreshold
meetsThreshold(similarity, confidenceThreshold) ==
    ~Greater(confidenceThreshold, similarity)

\* The body of the loop over the source columns: the entry the column
\* contributes, if any.  suggestions is what matcher.findMatches(sourceColumn, 1)
\* returned.
autoMapping(sourceFile, targetFile, confidenceThreshold, sourceColumn, suggestions) ==
    IF Len(suggestions) > 0 /\ meetsThreshold(suggestions[1].similarity, confidenceThreshold)
    THEN LET bestMatch == suggestions[1]
             sourceColType == findColumnType(sourceFile.parsedData[1].columnTypes, sourceColumn)
             targetColType == findColumnType(targetFile.parsedData[1].columnTypes,
                                             bestMatch.targetColumn)
         IN  IF /\ sourceColType # <<>>
                /\ targetColType # <<>>
                /\ areTypesCompatible(sourceColType[1].type, targetColType[1].type)
             THEN <<[sourceColumn |-> sourceColumn,
                     targetColumn |-> bestMatch.targetColumn,
                     transform |-> getRecommendedTransform(sourceColType[1].type,
                                                           targetColType[1].type)]>>
             ELSE <<>>
    ELSE <<>>

\* generateAutoMappings(sourceFile, targetFile, confidenceThreshold).
\* suggestions[i] is what findMatches returned for the i-th source column.
generateAutoMappings(sourceFile, targetFile, confidenceThreshold, suggestions) ==
    IF sourceFile.parsedData = <<>> \/ targetFile.parsedData = <<>>
    THEN [thrown |-> "Both files must have parsed data"]
    ELSE LET sourceColumns == sourceFile.parsedData[1].headers
         IN  [sourceFileId |-> sourceFile.id,
              targetFileId |-> targetFile.id,
              mappings |-> Flatten([i \in 1..Len(sourceColumns) |->
                              autoMapping(sourceFile, targetFile, confidenceThreshold,
                                          sourceColumns[i], suggestions[i])]),
              joinType |-> "inner"]

(***************************************************************************)
(* detectColumnTypes, the type detector of the file parsers.               *)
(***************************************************************************)
\* typeCounts after the forEach over the non-null cells of the column.
typeCounts(columnData) ==
    [type \in {"string", "number", "date", "boolean"} |->
        Len(SelectSeq(columnData, LAMBDA value : value.t = type))]

\* Object.entries(typeCounts), in insertion order.
typeOrder == <<"string", "number", "date", "boolean">>

\* The loop that determines the dominant type: dominantType and maxCount
\* after the first n entries.
RECURSIVE dominant(_, _)
dominant(counts, n) ==
    IF n = 0 THEN [dominantType |-> "string", maxCount |-> counts["string"]]
    ELSE LET before == dominant(counts, n - 1)
         IN  IF counts[typeOrder[n]] > before.maxCount
             THEN [dominantType |-> typeOrder[n], maxCount |-> counts[typeOrder[n]]]
             ELSE before

\* Mutant: five non-null cells are already enough for mixed.
isMixed_AtFive(confidence, length) ==
    Greater(Fraction(8, 10), confidence) /\ length >= 5

\* confidence < 0.8 && columnData.length > 5
isMixed(confidence, length) ==
    Greater(Fraction(8, 10), confidence) /\ length > 5

\* The descriptor of the column at index (1-based).
detectColumnType(headers, rows, index) ==
    LET columnData == SelectSeq([r \in 1..Len(rows) |-> rows[r][index]],
                                LAMBDA cell : cell.t # "null")
        found == dominant(typeCounts(columnData), Len(typeOrder))
        confidence == IF Len(columnData) > 0
                      THEN Fraction(found.maxCount, Len(columnData))
                      ELSE Fraction(0, 1)
        mixed == isMixed(confidence, Len(columnData))
    IN  [name |-> headers[index],
         type |-> IF mixed THEN "mixed" ELSE found.dominantType,
         confidence |-> IF mixed THEN Fraction(5, 10) ELSE confidence,
         samples |-> Slice(columnData, 10),
         nullCount |-> Len(rows) - Len(columnData),
         uniqueCount |-> uniqueCount(columnData)]

detectColumnTypes(headers, rows) ==
    [index \in 1..Len(headers) |-> detectColumnType(headers, rows, index)]

(***************************************************************************)
(* text-utils: calculateSimilarity.  The character "I-dot" stands for      *)
(* U+0130 (capital I with dot above), whose lower case is the two          *)
(* characters i and "dot-above" (U+0069 U+0307).                           *)
(***************************************************************************)
\* String.prototype.toLowerCase on one character.
lowerCaseOf(c) == IF c = "I-dot" THEN <<"i", "dot-above">> ELSE <<lowerChar(c)>>

\* String.prototype.toLowerCase
lowerCase(str) == Flatten([i \in 1..Len(str) |-> lowerCaseOf(str[i])])

calculateSimilarity(str1, str2) ==
    LET maxLength == IF Len(str1) >= Len(str2) THEN Len(str1) ELSE Len(str2)
    IN  IF maxLength = 0 THEN One
        ELSE Fraction(maxLength - levenshteinDistance(lowerCase(str1), lowerCase(str2)),
                      maxLength)

(***************************************************************************)
(* MappingWizard.  For this component the variable result holds its state: *)
(* the useState values, what it put in the application store, the pending  *)
(* setTimeout and the datasets handed to onComplete.                       *)
(***************************************************************************)
steps == <<"configure", "preview", "merge", "complete">>

maxRowsLimit == 50000

\* The state of the component when it is mounted.
mountedWizard ==
    [currentStep |-> "configure",
     mappings |-> <<>>,
     mergeResult |-> <<>>,
     isProcessing |-> FALSE,
     timer |-> FALSE,
     datasets |-> <<>>,
     globalStep |-> "mapping",
     completed |-> <<>>]

\* handleMappingComplete(completedMappings)
handleMappingComplete(wizard, completedMappings) ==
    [wizard EXCEPT !.mappings = completedMappings, !.currentStep = "preview"]

\* mergeOptions of performMerge.
mergeOptions(mappings) ==
    [joinType |-> IF mappings[1].joinType # <<>> THEN mappings[1].joinType[1] ELSE "inner",
     joinKey |-> mappings[1].joinKey,
     handleDuplicates |-> "keep_first",
     validateTypes |-> TRUE,
     maxRows |-> <<maxRowsLimit>>]

\* performMerge up to the await of DataMerger.mergeFiles.
startMerge(wizard) ==
    [wizard EXCEPT !.isProcessing = TRUE, !.currentStep = "merge"]

\* performMerge after the await: setMergeResult, addDataset and the
\* setTimeout that will set the step to complete.
finishMerge(wizard, mergeResult) ==
    [wizard EXCEPT !.mergeResult = <<mergeResult>>,
                   !.datasets = Append(@, mergeResult.dataset),
                   !.timer = TRUE]

\* completeMappingWizard()
completeMappingWizard(wizard) ==
    IF wizard.mergeResult # <<>>
    THEN [wizard EXCEPT !.completed = Append(@, wizard.mergeResult[1].dataset),
                        !.globalStep = "visualization"]
    ELSE wizard

canProceed(wizard) ==
    CASE wizard.currentStep = "configure" -> Len(wizard.mappings) > 0
      [] wizard.currentStep = "preview" -> TRUE
      [] wizard.currentStep = "merge" -> wizard.mergeResult # <<>>
      [] wizard.currentStep = "complete" -> TRUE
      [] OTHER -> FALSE

currentStepIndex(wizard) == IndexOf(steps, wizard.currentStep)

(***************************************************************************)
(* The calls of DataMerger.mergeFiles the model explores.                  *)
(***************************************************************************)
MaxRows == 2        \* rows of one parsed file
MaxTotalRows == 3   \* rows of all files of one call
MaxCap == 1         \* largest options.maxRows

SourceHeaders == <<"k", "v">>
KeyCells == {Null, Num("0"), Str("1")}
ValCells == {Null, Str("a")}
Rows == {<<k, v>> : k \in KeyCells, v \in ValCells}
RowSeqs(n) == UNION {[1..m -> Rows] : m \in 0..n}

JoinTypes == {"inner", "left", "right", "full"}
DuplicateStrategies == {"keep_first", "keep_last", "merge_values"}
JoinKeys == {<<>>, <<"k">>, <<"z">>}
Options == [joinType : JoinTypes, joinKey : JoinKeys,
            handleDuplicates : DuplicateStrategies, validateTypes : {TRUE},
            maxRows : {<<>>} \cup {<<n>> : n \in 1..MaxCap}]

ParsedFile(id, rows) ==
    [id |-> id, parsedData |-> <<[headers |-> SourceHeaders, rows |-> rows]>>]
UnparsedFile(id) == [id |-> id, parsedData |-> <<>>]

Entry(sourceColumn, targetColumn, transform) ==
    [sourceColumn |-> sourceColumn, targetColumn |-> targetColumn, transform |-> transform]
Mapping(sourceFileId, entries) == [sourceFileId |-> sourceFileId, mappings |-> entries]

IdentityEntries == <<Entry("k", "k", "none"), Entry("v", "v", "none")>>

\* Two parsed files with every content within the bounds, mapped column for
\* column, merged under every option.
DataCalls ==
    {[files |-> <<ParsedFile("f1", pair[1]), ParsedFile("f2", pair[2])>>,
      mappings |-> <<Mapping("f1", IdentityEntries), Mapping("f2", IdentityEntries)>>,
      options |-> options] :
        pair \in {p \in RowSeqs(MaxRows) \X RowSeqs(MaxRows) :
                    Len(p[1]) + Len(p[2]) <= MaxTotalRows},
        options \in Options}

\* The worked example of the join: left rows [{k:1,v:a}], right rows
\* [{k:1,v:b},{k:2,v:c}], under every option.
ExampleLeft == <<<<Str("1"), Str("a")>>>>
ExampleRight == <<<<Str("1"), Str("b")>>, <<Str("2"), Str("c")>>>>
ExampleCalls ==
    {[files |-> <<ParsedFile("f1", ExampleLeft), ParsedFile("f2", ExampleRight)>>,
      mappings |-> <<Mapping("f1", IdentityEntries), Mapping("f2", IdentityEntries)>>,
      options |-> options] : options \in Options}

\* Every shape of the file list and of the mapping list: no, one or two
\* files, each parsed or not; no, one or two mappings, each naming f1, f2 or
\* a file that is not there, with entries that rename, repeat a target or
\* name a source column the file does not have.
FewRows == {<<>>, <<<<Str("1"), Str("a")>>>>, <<<<Str("1"), Null>>, <<Str("1"), Null>>>>}
FileChoices(id) == {UnparsedFile(id)} \cup {ParsedFile(id, rows) : rows \in FewRows}
FileLists == {<<>>} \cup {<<f1>> : f1 \in FileChoices("f1")}
                    \cup {<<f1, f2>> : f1 \in FileChoices("f1"), f2 \in FileChoices("f2")}
EntryLists == {IdentityEntries,
               <<Entry("k", "k", "none"), Entry("v", "w", "uppercase")>>,
               <<Entry("v", "k", "absent"), Entry("k", "k", "none")>>,
               <<Entry("x", "v", "none")>>}
MappingChoices == {Mapping(id, entries) : id \in {"f1", "f2", "f9"}, entries \in EntryLists}
MappingLists == {<<>>} \cup {<<m1>> : m1 \in MappingChoices}
                       \cup {<<m1, m2>> : m1 \in MappingChoices, m2 \in MappingChoices}
StructureOptions == {o \in Options : o.handleDuplicates = "keep_first" /\ o.maxRows = <<>>
                                     /\ o.joinKey # <<"z">>}
StructureCalls ==
    {[files |-> files, mappings |-> mappings, options |-> options] :
        files \in FileLists, mappings \in MappingLists, options \in StructureOptions}

(***************************************************************************)
(* The specification: one call of mergeFiles.                              *)
(***************************************************************************)
Init ==
    /\ pc = "ready"
    /\ op = "mergeFiles"
    /\ \/ args \in DataCalls
       \/ args \in ExampleCalls
       \/ args \in StructureCalls
    /\ result = NoResult

MergeFiles ==
    /\ pc = "ready"
    /\ op = "mergeFiles"
    /\ result' = mergeFiles(args.files, args.mappings, args.options)
    /\ pc' = "done"
    /\ UNCHANGED <<op, args>>

Next == MergeFiles

Spec == Init /\ [][Next]_vars

(***************************************************************************)
(* One call of createUnifiedSchema.                                        *)
(***************************************************************************)
MaxSchemas == 2   \* transformed files of one merge
MaxColumns == 2   \* target columns of one transformed file

SchemaNames == {"k", "v", "w"}
Schemas == UNION {[1..n -> SchemaNames] : n \in 0..MaxColumns}
SchemaLists == UNION {[1..n -> Schemas] : n \in 1..MaxSchemas}

InitSchema ==
    /\ pc = "ready"
    /\ op = "createUnifiedSchema"
    /\ args \in {[schemas |-> schemas] : schemas \in SchemaLists}
    /\ result = NoResult

CreateUnifiedSchema ==
    /\ pc = "ready"
    /\ op = "createUnifiedSchema"
    /\ result' = createUnifiedSchema(args.schemas)
    /\ pc' = "done"
    /\ UNCHANGED <<op, args>>

NextSchema == CreateUnifiedSchema

SpecSchema == InitSchema /\ [][NextSchema]_vars

(***************************************************************************)
(* One call of validateMapping.                                            *)
(***************************************************************************)
MaxEntries == 2   \* entries of one mapping

TargetHeaders == <<"id", "w">>
ValidatedEntries == {Entry(sourceColumn, targetColumn, "none") :
                        sourceColumn \in {"k", "v", "x"}, targetColumn \in {"id", "w", "z"}}
ValidatedMappings == {Mapping("f1", entries) :
                        entries \in UNION {[1..n -> ValidatedEntries] : n \in 0..MaxEntries}}
SourceFiles == {UnparsedFile("f1"), ParsedFile("f1", <<>>)}
TargetFiles == {<<>>, <<UnparsedFile("f2")>>,
                <<[id |-> "f2", parsedData |-> <<[headers |-> TargetHeaders, rows |-> <<>>]>>]>>}

InitValidate ==
    /\ pc = "ready"
    /\ op = "validateMapping"
    /\ args \in [mapping : ValidatedMappings, sourceFile : SourceFiles, targetFile : TargetFiles]
    /\ result = NoResult

ValidateMapping ==
    /\ pc = "ready"
    /\ op = "validateMapping"
    /\ result' = validateMapping(args.mapping, args.sourceFile, args.targetFile)
    /\ pc' = "done"
    /\ UNCHANGED <<op, args>>

NextValidate == ValidateMapping

SpecValidate == InitValidate /\ [][NextValidate]_vars

(***************************************************************************)
(* The calls of findMatches that are explored.  Fuse.js is a library: a    *)
(* search returns some of the indexed items, each once, by ascending       *)
(* score, no score above the threshold 0.6.                                *)
(***************************************************************************)
MaxCandidates == 2

MaxLimit == 2

cust_id == <<"c", "u", "s", "t", "_", "i", "d">>

customer_id == <<"c", "u", "s", "t", "o", "m", "e", "r", "_", "i", "d">>

customer_name == <<"c", "u", "s", "t", "o", "m", "e", "r", "_", "n", "a", "m", "e">>

ColumnNames ==
    {cust_id, customer_id, customer_name,
     <<"O", "r", "d", "e", "r", " ", "D", "a", "t", "e">>, <<"k", "e", "y">>}

CandidateLists ==
    UNION {{c \in [1..n -> ColumnNames] : \A i, j \in 1..n : c[i] = c[j] => i = j} :
           n \in 1..MaxCandidates}

FuseScores == {0, 3, 6}

FuseResults(items) ==
    UNION {{[i \in 1..n |-> [item |-> items[r[i][1]], score |-> r[i][2]]] :
            r \in {r \in [1..n -> (1..Len(items)) \X FuseScores] :
                      /\ \A i, j \in 1..n : r[i][1] = r[j][1] => i = j
                      /\ \A i \in 1..(n - 1) : r[i][2] <= r[i + 1][2]}} :
           n \in 0..Len(items)}

InitMatch ==
    /\ pc = "ready"
    /\ op = "findMatches"
    /\ args \in [sourceColumn : ColumnNames,
                 targetColumns : CandidateLists,
                 limit : 1..MaxLimit]
    /\ result = NoResult

\* new ColumnMatcher(targetColumns).findMatches(sourceColumn, limit)
FindMatches ==
    /\ pc = "ready"
    /\ op = "findMatches"
    /\ \E searchResults \in FuseResults(searchableColumns(args.targetColumns)),
          allItems \in {<<>>, searchableColumns(args.targetColumns)} :
          result' = findMatches(args.sourceColumn, args.limit, searchResults, allItems)
    /\ pc' = "done"
    /\ UNCHANGED <<op, args>>

NextMatch == FindMatches

SpecMatch == InitMatch /\ [][NextMatch]_vars

(***************************************************************************)
(* The calls of generateAutoMappings that are explored: files as the       *)
(* parsers build them, one column descriptor per header.                   *)
(***************************************************************************)
MaxSourceColumns == 2

MaxTargetColumns == 2

key == <<"k", "e", "y">>

Key == <<"K", "e", "y">>

TypedColumns(names, types) == [name : names, type : types]

\* A parsed file whose headers and columnTypes are those of the columns.
TypedFile(id, columns) ==
    [id |-> id,
     parsedData |-> <<[headers |-> [i \in 1..Len(columns) |-> columns[i].name],
                       rows |-> <<>>,
                       columnTypes |-> columns]>>]

AutoSourceFiles ==
    {UnparsedFile("f1")} \cup
    {TypedFile("f1", columns) :
        columns \in UNION {[1..n -> TypedColumns({key, Key, cust_id},
                                                 {"string", "number", "date"})] :
                           n \in 1..MaxSourceColumns}}

AutoTargetFiles ==
    {UnparsedFile("f2")} \cup
    {TypedFile("f2", columns) :
        columns \in UNION {{c \in [1..n -> TypedColumns({key, customer_id},
                                                         {"string", "number"})] :
                                \A i, j \in 1..n : c[i].name = c[j].name => i = j} :
                           n \in 1..MaxTargetColumns}}

\* The default confidenceThreshold, 0.7.
Thresholds == {Fraction(7, 10)}

\* What fuse.search(query, { limit }) can return.
FuseLimited(items, limit) == {Slice(r, limit) : r \in FuseResults(items)}

InitAuto ==
    /\ pc = "ready"
    /\ op = "generateAutoMappings"
    /\ args \in [sourceFile : AutoSourceFiles,
                 targetFile : AutoTargetFiles,
                 confidenceThreshold : Thresholds]
    /\ result = NoResult

\* generateAutoMappings(sourceFile, targetFile, confidenceThreshold): one
\* matcher over the target headers answers every source column, so that a
\* query gets the same search results every time it is made.
GenerateAutoMappings ==
    /\ pc = "ready"
    /\ op = "generateAutoMappings"
    /\ IF args.sourceFile.parsedData = <<>> \/ args.targetFile.parsedData = <<>>
       THEN result' = generateAutoMappings(args.sourceFile, args.targetFile,
                                           args.confidenceThreshold, <<>>)
       ELSE LET sourceColumns == args.sourceFile.parsedData[1].headers
                items == searchableColumns(args.targetFile.parsedData[1].headers)
                queries == {normalizeColumnName(c) : c \in Range(sourceColumns)}
            IN  \E search \in [queries -> FuseLimited(items, 1)],
                   allItems \in {<<>>, items} :
                   result' = generateAutoMappings(
                                args.sourceFile, args.targetFile, args.confidenceThreshold,
                                [i \in 1..Len(sourceColumns) |->
                                    findMatches(sourceColumns[i], 1,
                                                search[normalizeColumnName(sourceColumns[i])],
                                                allItems)])
    /\ pc' = "done"
    /\ UNCHANGED <<op, args>>

NextAuto == GenerateAutoMappings

SpecAuto == InitAuto /\ [][NextAuto]_vars

(***************************************************************************)
(* The calls of DataTransformer.transformData that are explored.           *)
(***************************************************************************)
TransformedHeaders == {<<"k", "v">>, <<"k", "k">>}

TransformedCells == {Null, Str("a"), Num("0")}

TransformedData == UNION {[1..m -> [1..2 -> TransformedCells]] : m \in 0..MaxRows}

TransformEntries ==
    {Entry(sourceColumn, targetColumn, transform) :
        sourceColumn \in {"k", "v", "x"}, targetColumn \in {"k", "w"},
        transform \in {"absent", "none", "uppercase"}}

TransformMappings == UNION {[1..n -> TransformEntries] : n \in 0..MaxEntries}

InitTransform ==
    /\ pc = "ready"
    /\ op = "transformData"
    /\ args \in [data : TransformedData, headers : TransformedHeaders,
                 mapping : TransformMappings]
    /\ result = NoResult

TransformData ==
    /\ pc = "ready"
    /\ op = "transformData"
    /\ result' = transformData(args.data, args.headers, args.mapping)
    /\ pc' = "done"
    /\ UNCHANGED <<op, args>>

NextTransform == TransformData

SpecTransform == InitTransform /\ [][NextTransform]_vars

(***************************************************************************)
(* The calls of the type table that are explored: every ordered pair of    *)
(* data types, for areTypesCompatible and for getRecommendedTransform.     *)
(***************************************************************************)
InitTypes ==
    /\ pc = "ready"
    /\ op \in {"areTypesCompatible", "getRecommendedTransform"}
    /\ args \in [sourceType : DataTypes, targetType : DataTypes]
    /\ result = NoResult

AreTypesCompatible ==
    /\ pc = "ready"
    /\ op = "areTypesCompatible"
    /\ result' = areTypesCompatible(args.sourceType, args.targetType)
    /\ pc' = "done"
    /\ UNCHANGED <<op, args>>

GetRecommendedTransform ==
    /\ pc = "ready"
    /\ op = "getRecommendedTransform"
    /\ result' = getRecommendedTransform(args.sourceType, args.targetType)
    /\ pc' = "done"
    /\ UNCHANGED <<op, args>>

NextTypes == AreTypesCompatible \/ GetRecommendedTransform

SpecTypes == InitTypes /\ [][NextTypes]_vars

(***************************************************************************)
(* The calls of detectColumnTypes that are explored: one column of up to   *)
(* MaxCells cells, strings first, then numbers, dates and nulls (the type  *)
(* and the confidence do not depend on the order of the rows).             *)
(***************************************************************************)
MaxCells == 10

Repeat(cell, n) == [i \in 1..n |-> <<cell>>]

ColumnRows ==
    {Repeat(Str("a"), c[1]) \o Repeat(Num("1"), c[2]) \o Repeat(Date("d"), c[3])
        \o Repeat(Null, c[4]) :
        c \in {c \in (0..MaxCells) \X (0..MaxCells) \X (0..MaxCells) \X (0..MaxCells) :
                  c[1] + c[2] + c[3] + c[4] <= MaxCells}}

InitDetect ==
    /\ pc = "ready"
    /\ op = "detectColumnTypes"
    /\ args \in [headers : {<<"k">>}, rows : ColumnRows]
    /\ result = NoResult

DetectColumnTypes ==
    /\ pc = "ready"
    /\ op = "detectColumnTypes"
    /\ result' = detectColumnTypes(args.headers, args.rows)
    /\ pc' = "done"
    /\ UNCHANGED <<op, args>>

NextDetect == DetectColumnTypes

SpecDetect == InitDetect /\ [][NextDetect]_vars

(***************************************************************************)
(* The calls of levenshteinDistance and calculateSimilarity that are       *)
(* explored: every pair of strings of up to MaxLen characters.             *)
(***************************************************************************)
MaxLen == 3

Characters == {"a", "B", "I-dot"}

Strings == UNION {[1..n -> Characters] : n \in 0..MaxLen}

InitText ==
    /\ pc = "ready"
    /\ op \in {"levenshteinDistance", "calculateSimilarity"}
    /\ args \in [str1 : Strings, str2 : Strings]
    /\ result = NoResult

LevenshteinDistance ==
    /\ pc = "ready"
    /\ op = "levenshteinDistance"
    /\ result' = levenshteinDistance(args.str1, args.str2)
    /\ pc' = "done"
    /\ UNCHANGED <<op, args>>

CalculateSimilarity ==
    /\ pc = "ready"
    /\ op = "calculateSimilarity"
    /\ result' = calculateSimilarity(args.str1, args.str2)
    /\ pc' = "done"
    /\ UNCHANGED <<op, args>>

NextText == LevenshteinDistance \/ CalculateSimilarity

SpecText == InitText /\ [][NextText]_vars

(***************************************************************************)
(* The mapping wizard: the ready files of the store at the time of the     *)
(* merge, and the mappings the mapping interface hands over (one per       *)
(* source file it was shown; a file can have left the store since).        *)
(***************************************************************************)
WizardMapping(sourceFileId, joinType, joinKey) ==
    [sourceFileId |-> sourceFileId, mappings |-> IdentityEntries,
     joinType |-> <<joinType>>, joinKey |-> joinKey]

WizardMappingLists ==
    {<<>>} \cup
    {[i \in 1..Len(ids) |-> WizardMapping(ids[i], joinType, joinKey)] :
        ids \in {<<"f1">>, <<"f2">>, <<"f1", "f2">>},
        joinType \in {"inner", "right"},
        joinKey \in {<<>>, <<"k">>}}

WizardFiles ==
    {<<ParsedFile("f1", rows)>> : rows \in FewRows}
    \cup {<<ParsedFile("f1", rows), ParsedFile("f2", rows)>> : rows \in FewRows}

InitWizard ==
    /\ pc = "idle"
    /\ op = "MappingWizard"
    /\ args \in [readyFiles : WizardFiles, completedMappings : WizardMappingLists]
    /\ result = mountedWizard

\* The mapping interface, shown on the configure step, completes.
HandleMappingComplete ==
    /\ pc = "idle"
    /\ op = "MappingWizard"
    /\ result.currentStep = "configure"
    /\ result' = handleMappingComplete(result, args.completedMappings)
    /\ UNCHANGED <<pc, op, args>>

\* A click on Next on the preview step: performMerge, up to the await.
PerformMerge ==
    /\ pc = "idle"
    /\ op = "MappingWizard"
    /\ canProceed(result) /\ ~result.isProcessing
    /\ result.currentStep = "preview"
    /\ Len(result.mappings) # 0
    /\ result' = startMerge(result)
    /\ pc' = "merging"
    /\ UNCHANGED <<op, args>>

\* DataMerger.mergeFiles returns and performMerge goes on.
MergeReturns ==
    /\ pc = "merging"
    /\ op = "MappingWizard"
    /\ result' = finishMerge(result, mergeFiles(args.readyFiles, result.mappings,
                                               mergeOptions(result.mappings)))
    /\ pc' = "idle"
    /\ UNCHANGED <<op, args>>

\* The setTimeout of performMerge fires.
Timeout ==
    /\ op = "MappingWizard"
    /\ result.timer
    /\ result' = [result EXCEPT !.currentStep = "complete", !.timer = FALSE]
    /\ UNCHANGED <<pc, op, args>>

\* A click on Next on another step than preview: the next step, or
\* completeMappingWizard on the last one.
HandleNext ==
    /\ pc = "idle"
    /\ op = "MappingWizard"
    /\ canProceed(result) /\ ~result.isProcessing
    /\ result.currentStep # "preview"
    /\ result' = IF currentStepIndex(result) < Len(steps)
                 THEN [result EXCEPT !.currentStep = steps[currentStepIndex(result) + 1]]
                 ELSE completeMappingWizard(result)
    /\ UNCHANGED <<pc, op, args>>

\* A click on Previous.
HandlePrevious ==
    /\ pc = "idle"
    /\ op = "MappingWizard"
    /\ currentStepIndex(result) # 1 /\ ~result.isProcessing
    /\ result' = [result EXCEPT !.currentStep = steps[currentStepIndex(result) - 1]]
    /\ UNCHANGED <<pc, op, args>>

NextWizard ==
    \/ HandleMappingComplete
    \/ PerformMerge
    \/ MergeReturns
    \/ Timeout
    \/ HandleNext
    \/ HandlePrevious

SpecWizard == InitWizard /\ [][NextWizard]_vars

(***************************************************************************)
(* One call of mergeRows, as performKeyBasedJoin makes it: the rows are    *)
(* aligned to the unified headers, and at least one side is present.       *)
(***************************************************************************)
MaxHeaders == 2   \* unified headers of one join

UnifiedHeaders == {SubSeq(<<"k", "v", "w">>, 1, n) : n \in 1..MaxHeaders}
JoinCells == {Null, Num("0"), Str("a"), Str("b")}
AlignedRows(headers) == [1..Len(headers) -> JoinCells]
OptionalRows(headers) == {<<>>} \cup {<<row>> : row \in AlignedRows(headers)}

InitRows ==
    /\ pc = "ready"
    /\ op = "mergeRows"
    /\ \E headers \in UnifiedHeaders :
          args \in {[leftRow |-> rows[1], rightRow |-> rows[2], headers |-> headers] :
                      rows \in {p \in OptionalRows(headers) \X OptionalRows(headers) :
                                  p[1] # <<>> \/ p[2] # <<>>}}
    /\ result = NoResult

MergeRows ==
    /\ pc = "ready"
    /\ op = "mergeRows"
    /\ result' = mergeRows(args.leftRow, args.rightRow, args.headers)
    /\ pc' = "done"
    /\ UNCHANGED <<op, args>>

NextRows == MergeRows

SpecRows == InitRows /\ [][NextRows]_vars

(***************************************************************************)
(* The duplicate handling of performMerge on merged rows of one column.    *)
(* The text of a Date cell is its ISO form, which JSON.stringify quotes as *)
(* it quotes a string.                                                     *)
(***************************************************************************)
MaxMergedRows == 4   \* merged rows before duplicate handling

MergedCells == {Null, Num("0"), Str("d"), Date("d")}
MergedData == UNION {[1..n -> {<<cell>> : cell \in MergedCells}] : n \in 0..MaxMergedRows}

InitDuplicates ==
    /\ pc = "ready"
    /\ op = "handleDuplicates"
    /\ args \in [data : MergedData, handleDuplicates : DuplicateStrategies]
    /\ result = NoResult

\* if (options.handleDuplicates !== 'keep_first') { ... }
HandleDuplicates ==
    /\ pc = "ready"
    /\ op = "handleDuplicates"
    /\ result' = IF args.handleDuplicates # "keep_first"
                 THEN LET dedupeResult == handleDuplicates(args.data, args.handleDuplicates)
                      IN  [data |-> dedupeResult.data,
                           duplicateRows |-> dedupeResult.duplicatesRemoved]
                 ELSE [data |-> args.data, duplicateRows |-> 0]
    /\ pc' = "done"
    /\ UNCHANGED <<op, args>>

NextDuplicates == HandleDuplicates

SpecDuplicates == InitDuplicates /\ [][NextDuplicates]_vars

(***************************************************************************)
(* One call of DataMerger.detectColumnTypes on merged rows of one column.  *)
(***************************************************************************)
InitMergedTypes ==
    /\ pc = "ready"
    /\ op = "DataMerger.detectColumnTypes"
    /\ args \in [headers : {<<"k">>}, rows : ColumnRows]
    /\ result = NoResult

MergedColumnTypes ==
    /\ pc = "ready"
    /\ op = "DataMerger.detectColumnTypes"
    /\ result' = mergedColumnTypes(args.rows, args.headers)
    /\ pc' = "done"
    /\ UNCHANGED <<op, args>>

NextMergedTypes == MergedColumnTypes

SpecMergedTypes == InitMergedTypes /\ [][NextMergedTypes]_vars

\* The wizard with its scheduling: the timer performMerge sets fires; the
\* user's clicks are under no obligation.
SpecWizardLive ==
    SpecWizard /\ WF_vars(Timeout)

(***************************************************************************)
(* Properties of mergeFiles.                                               *)
(***************************************************************************)
Merged == pc = "done" /\ op = "mergeFiles"

\* A mapping resolves when a file has its sourceFileId and parsed data.
Resolves(files, mapping) ==
    \E i \in 1..Len(files) :
        files[i].id = mapping.sourceFileId /\ files[i].parsedData # <<>>

SomeMappingResolves ==
    \E j \in 1..Len(args.mappings) : Resolves(args.files, args.mappings[j])

EmptyResult ==
    /\ result.dataset.data = <<>>
    /\ result.dataset.headers = <<>>
    /\ result.dataset.rowCount = 0
    /\ result.stats = [totalRows |-> 0, mergedRows |-> 0, droppedRows |-> 0,
                       duplicateRows |-> 0, nullValues |-> 0]

\* C1: every call of mergeFiles returns a MergeResult (dataset, stats,
\* warnings, errors), and when files is empty, mappings is empty or no
\* mapping resolves to a parsed file the result has a non-empty errors
\* sequence with a dataset of zero rows, empty headers, rowCount 0 and all
\* five statistics 0.
C1_FailureIsReported ==
    Merged =>
        /\ DOMAIN result = {"dataset", "stats", "warnings", "errors"}
        /\ (Len(args.files) = 0 \/ Len(args.mappings) = 0 \/ ~SomeMappingResolves)
              => (result.errors # <<>> /\ EmptyResult)

\* C1 witness: files and mappings are there, no mapping resolves, and the
\* call returned the error with the empty dataset.
C1_Witness ==
    /\ Merged
    /\ Len(args.files) > 0 /\ Len(args.mappings) = 2
    /\ ~SomeMappingResolves
    /\ result.errors = <<"No valid files to merge after transformation">>
    /\ EmptyResult

\* The mappings that do not resolve, in mapping order.
SkippedMappings == SelectSeq(args.mappings, LAMBDA m : ~Resolves(args.files, m))
ResolvedMappings == SelectSeq(args.mappings, LAMBDA m : Resolves(args.files, m))

RowsOfFile(id) ==
    LET i == CHOOSE i \in 1..Len(args.files) : args.files[i].id = id
    IN  args.files[i].parsedData[1].rows

WarningsAndSkips ==
    \* exactly one warning per mapping that does not resolve, naming its file
    /\ Len(result.warnings) = Len(SkippedMappings)
    /\ \A i \in 1..Len(SkippedMappings) :
           result.warnings[i].file = SkippedMappings[i].sourceFileId
    \* the mappings that resolve are merged: no error, their rows are the
    \* input rows and their target columns the headers
    /\ ResolvedMappings # <<>> =>
           /\ result.errors = <<>>
           /\ result.stats.totalRows =
                 SumSeq([i \in 1..Len(ResolvedMappings) |->
                            Len(RowsOfFile(ResolvedMappings[i].sourceFileId))])
           /\ Range(result.dataset.headers) =
                 UNION {{m.mappings[e].targetColumn : e \in 1..Len(m.mappings)} :
                            m \in Range(ResolvedMappings)}

TwoFileCall ==
    /\ Len(args.files) = 2
    /\ \A i \in 1..2 : args.files[i].parsedData # <<>>
    /\ args.mappings = <<Mapping("f1", IdentityEntries), Mapping("f2", IdentityEntries)>>

JoinedOnKey(joinType) ==
    /\ Merged /\ TwoFileCall
    /\ args.options.joinKey = <<"k">>
    /\ args.options.joinType = joinType
    /\ args.options.maxRows = <<>>

Left == args.files[1].parsedData[1].rows
Right == args.files[2].parsedData[1].rows

\* The join-key value of a cell: its string form, the empty string for a
\* missing (null) cell.
KeyValue(cell) == IF cell.t = "null" THEN "" ELSE cell.s
KeyValues(rows) == {KeyValue(rows[i][1]) : i \in 1..Len(rows)}
OutputKeyValues == {KeyValue(result.dataset.data[i]["k"]) : i \in 1..Len(result.dataset.data)}

\* C2: an inner key-based join has a merged row exactly for the join-key
\* values present on both sides, one each, and droppedRowCount grows by the
\* number of left keys with no match on the right.
C2_InnerJoinKeys ==
    JoinedOnKey("inner") =>
        /\ OutputKeyValues = KeyValues(Left) \cap KeyValues(Right)
        /\ Len(result.dataset.data) = Cardinality(KeyValues(Left) \cap KeyValues(Right))
        /\ result.stats.droppedRows = Cardinality(KeyValues(Left) \ KeyValues(Right))

ExampleCall ==
    /\ TwoFileCall
    /\ Left = ExampleLeft
    /\ Right = ExampleRight

\* C3 as stated: in an inner key-based merge a right-side key with no
\* matching left key is counted as dropped; the example (left [{k:1,v:a}],
\* right [{k:1,v:b},{k:2,v:c}]) gives one merged row, for key 1, and
\* droppedRowCount 1.
C3_Original ==
    (JoinedOnKey("inner") /\ ExampleCall) =>
        /\ Len(result.dataset.data) = 1
        /\ result.dataset.data[1]["k"] = Str("1")
        /\ result.stats.droppedRows = 1

\* C3 amended: a right-side key with no matching left key is not counted;
\* droppedRowCount counts left keys only, so it is at most the number of
\* left rows that gave no merged row, and the example gives one merged row,
\* for key 1, and droppedRowCount 0.
C3_RightKeysNotCounted ==
    JoinedOnKey("inner") =>
        /\ result.stats.droppedRows <= Len(Left) - Len(result.dataset.data)
        /\ ExampleCall =>
              /\ Len(result.dataset.data) = 1
              /\ result.dataset.data[1]["k"] = Str("1")
              /\ result.stats.droppedRows = 0

\* C3 witness: the example, joined: one row and nothing dropped, with key 2
\* of the right side unmatched.
C3_Witness ==
    /\ JoinedOnKey("inner") /\ ExampleCall
    /\ Len(result.dataset.data) = 1
    /\ result.stats.droppedRows = 0

\* A row as the record of the dataset.
AsRecord(row) == [h \in {"k", "v"} |-> IF h = "k" THEN row[1] ELSE row[2]]

\* The left row with the right row's values where the left has none.
Overlay(l, r) == [i \in 1..2 |-> IF l[i] # Null THEN l[i] ELSE r[i]]

\* C4: a left key-based join has exactly one merged row for every left
\* join-key value (the right side filled in when the key is on the right,
\* the left row alone otherwise), no row for keys only on the right, and
\* adds nothing to droppedRowCount (0 in the example).
C4_LeftJoinKeys ==
    JoinedOnKey("left") =>
        /\ OutputKeyValues = KeyValues(Left)
        /\ Len(result.dataset.data) = Cardinality(KeyValues(Left))
        /\ \A o \in Range(result.dataset.data) :
              \E i \in 1..Len(Left) :
                 /\ KeyValue(Left[i][1]) = KeyValue(o["k"])
                 /\ IF KeyValue(o["k"]) \in KeyValues(Right)
                    THEN \E j \in 1..Len(Right) :
                            /\ KeyValue(Right[j][1]) = KeyValue(o["k"])
                            /\ o = AsRecord(Overlay(Left[i], Right[j]))
                    ELSE o = AsRecord(Left[i])
        /\ result.stats.droppedRows = 0
        /\ ExampleCall => Len(result.dataset.data) = 1

\* The calls that concatenate: joinType right or full.
Concatenated ==
    /\ Merged /\ TwoFileCall
    /\ args.options.joinType \in {"right", "full"}

\* C6: when maxRows is set and the merged row count (after join and
\* duplicate handling) exceeds it, the result has exactly maxRows rows and
\* droppedRowCount grows by the overflow, the row count before truncation
\* minus maxRows.  Stated on the calls that concatenate, where the row count
\* before truncation is totalRows - duplicateRows and the join drops none.
C6_RowCap ==
    (/\ Concatenated
     /\ args.options.maxRows # <<>>
     /\ result.stats.totalRows - result.stats.duplicateRows > args.options.maxRows[1])
    => /\ result.stats.mergedRows = args.options.maxRows[1]
       /\ result.dataset.rowCount = args.options.maxRows[1]
       /\ result.stats.droppedRows =
             (result.stats.totalRows - result.stats.duplicateRows) - args.options.maxRows[1]

\* C8: a joinKey given for an inner/left merge whose column is not in the
\* joined schema makes the merge concatenate the two sides, dropping no
\* row, and adds a warning about the fallback to the result's warnings.
C8_FallbackWarns ==
    (/\ Merged /\ TwoFileCall
     /\ args.options.joinType \in {"inner", "left"}
     /\ args.options.joinKey = <<"z">>)
    => /\ (args.options.handleDuplicates = "keep_first" /\ args.options.maxRows = <<>>)
             => /\ result.dataset.data = [i \in 1..Len(Left \o Right) |-> AsRecord((Left \o Right)[i])]
                /\ result.stats.droppedRows = 0
       /\ result.warnings # <<>>

(***************************************************************************)
(* Properties of createUnifiedSchema.                                      *)
(***************************************************************************)
SchemaDone == pc = "done" /\ op = "createUnifiedSchema"

\* The number of transformed files whose headers contain the column.
FilesWith(column) ==
    Cardinality({i \in 1..Len(args.schemas) : column \in Range(args.schemas[i])})

\* The number of times the column occurs in the headers of all files.
Occurrences(column) ==
    SumSeq([i \in 1..Len(args.schemas) |->
               Cardinality({j \in 1..Len(args.schemas[i]) : args.schemas[i][j] = column})])

\* The schema has every header of every file exactly once.
EveryHeaderOnce ==
    /\ Range(result) = UNION {Range(args.schemas[i]) : i \in 1..Len(args.schemas)}
    /\ Cardinality(Range(result)) = Len(result)

\* The schema is in descending order of Weight, ties in alphabetical order.
OrderedBy(Weight(_)) ==
    \A i, j \in 1..Len(result) :
        i < j => \/ Weight(result[i]) > Weight(result[j])
                 \/ /\ Weight(result[i]) = Weight(result[j])
                    /\ localeCompare(result[i], result[j]) < 0

\* C5 as stated: the unified schema has every target header of every
\* transformed file exactly once, in descending order of the number of
\* files the header appears in, ties in ascending alphabetical order.
C5_Original == SchemaDone => (EveryHeaderOnce /\ OrderedBy(FilesWith))

\* C5 amended: the same, the order being by the number of occurrences of
\* the header in the headers of all files (a header a file has twice counts
\* twice).
C5_UnifiedSchemaOrder == SchemaDone => (EveryHeaderOnce /\ OrderedBy(Occurrences))

\* C5 witness: a file has a header twice, and the schema puts it before a
\* header that is in as many files and is alphabetically first.
C5_Witness ==
    /\ SchemaDone
    /\ Len(result) >= 2
    /\ Occurrences(result[1]) > FilesWith(result[1])
    /\ FilesWith(result[1]) = FilesWith(result[2])
    /\ localeCompare(result[2], result[1]) < 0

(***************************************************************************)
(* Properties of validateMapping.                                          *)
(***************************************************************************)
Validated == pc = "done" /\ op = "validateMapping"

ValidatedEntry(i) == args.mapping.mappings[i]
EntryIndexes == 1..Len(args.mapping.mappings)
TargetParsed == args.targetFile # <<>> /\ args.targetFile[1].parsedData # <<>>

SourceExists(i) ==
    ValidatedEntry(i).sourceColumn \in Range(args.sourceFile.parsedData[1].headers)
TargetExists(i) ==
    ValidatedEntry(i).targetColumn \in Range(args.targetFile[1].parsedData[1].headers)
TargetShared(i) ==
    \E j \in EntryIndexes : j # i /\ ValidatedEntry(j).targetColumn = ValidatedEntry(i).targetColumn

\* C9: validateMapping returns a sequence of errors and, for a source file
\* with parsed data, the empty one exactly when every sourceColumn is a
\* source header, every targetColumn a target header (a parsed target file
\* given) and no targetColumn is in two entries; each violation gives an
\* error naming the column.
C9_ValidationErrors ==
    Validated =>
        /\ \A i \in 1..Len(result) : DOMAIN result[i] = {"error", "column"}
        /\ args.sourceFile.parsedData # <<>> =>
              /\ result = <<>> <=>
                    \A i \in EntryIndexes :
                        /\ SourceExists(i)
                        /\ TargetParsed => TargetExists(i)
                        /\ ~TargetShared(i)
              /\ \A i \in EntryIndexes :
                    /\ ~SourceExists(i) =>
                          SourceColumnMissing(ValidatedEntry(i).sourceColumn) \in Range(result)
                    /\ (TargetParsed /\ ~TargetExists(i)) =>
                          TargetColumnMissing(ValidatedEntry(i).targetColumn) \in Range(result)
                    /\ TargetShared(i) =>
                          MappedMultipleTimes(ValidatedEntry(i).targetColumn) \in Range(result)

\* C9 witness: two entries target id, from columns the source has, and the
\* only error says id is mapped multiple times.
C9_Witness ==
    /\ Validated
    /\ args.sourceFile.parsedData # <<>>
    /\ Len(args.mapping.mappings) = 2
    /\ \A i \in EntryIndexes : ValidatedEntry(i).targetColumn = "id" /\ SourceExists(i)
    /\ result = <<MappedMultipleTimes("id")>>

(***************************************************************************)
(* Column matching                                                         *)
(***************************************************************************)
Matched == pc = "done" /\ op = "findMatches"

\* C10: every suggestion findMatches returns names, as its targetColumn, one
\* of the candidate names the matcher was constructed with; and for the
\* source cust_id against the candidates customer_id and customer_name the
\* first suggestion is customer_id.
C10_SuggestionsNameCandidates ==
    Matched =>
        /\ \A i \in 1..Len(result) :
              result[i].targetColumn \in Range(args.targetColumns)
        /\ (/\ args.sourceColumn = cust_id
            /\ args.targetColumns = <<customer_id, customer_name>>)
           => /\ result # <<>>
              /\ result[1].targetColumn = customer_id

(***************************************************************************)
(* Properties of the type table and of generateAutoMappings.               *)
(***************************************************************************)
AutoDone == pc = "done" /\ op = "generateAutoMappings"

BothParsed == args.sourceFile.parsedData # <<>> /\ args.targetFile.parsedData # <<>>

\* The compatibility relation in words: equal types, anything with mixed or
\* unknown, number, date and boolean into string, boolean into number.
Compatible(s, t) ==
    \/ s = t
    \/ s \in {"mixed", "unknown"}
    \/ t \in {"mixed", "unknown"}
    \/ <<s, t>> \in {<<"number", "string">>, <<"date", "string">>,
                     <<"boolean", "string">>, <<"boolean", "number">>}

ExpectedTransform(s, t) ==
    CASE s = "date" /\ t = "string" -> "date_format"
      [] s = "number" /\ t = "string" -> "number_format"
      [] OTHER -> "none"

\* What the matcher over the target headers can answer for a source column.
BestSuggestions(sourceColumn) ==
    LET items == searchableColumns(args.targetFile.parsedData[1].headers)
    IN  {findMatches(sourceColumn, 1, r, a) :
            r \in FuseLimited(items, 1), a \in {<<>>, items}}

\* The inferred type of the column of that name in a file.
TypeOf(file, name) ==
    LET columnTypes == file.parsedData[1].columnTypes
    IN  columnTypes[CHOOSE i \in 1..Len(columnTypes) :
                        /\ columnTypes[i].name = name
                        /\ \A j \in 1..(i - 1) : columnTypes[j].name # name].type

HasColumn(file, name) == name \in Range(file.parsedData[1].headers)

\* a is b with some elements left out.
RECURSIVE IsSubsequence(_, _)
IsSubsequence(a, b) ==
    IF a = <<>> THEN TRUE
    ELSE IF b = <<>> THEN FALSE
    ELSE IF Head(a) = Head(b) THEN IsSubsequence(Tail(a), Tail(b))
    ELSE IsSubsequence(a, Tail(b))

C12_AutoMappingTargetsDistinct ==
    (AutoDone /\ BothParsed) =>
        /\ \A i, j \in 1..Len(result.mappings) :
              result.mappings[i].targetColumn = result.mappings[j].targetColumn => i = j
        /\ \A e \in Range(validateMapping(result, args.sourceFile, <<args.targetFile>>)) :
              e.error # "is mapped multiple times"

(***************************************************************************)
(* Properties of transformData.                                            *)
(***************************************************************************)
Transformed == pc = "done" /\ op = "transformData"

NoTransform ==
    \A e \in 1..Len(args.mapping) : args.mapping[e].transform \in {"absent", "none"}

\* C13: with transform none (or no transform) on every entry, transformData
\* returns the entries' targetColumns, in mapping order, as headers, one
\* cell per entry in every row, and as the cell of a row and an entry the
\* row's cell in the entry's sourceColumn, unchanged (null when the input
\* headers do not have that column).
C13_NoTransformKeepsCells ==
    (Transformed /\ NoTransform) =>
        /\ result.headers = [e \in 1..Len(args.mapping) |-> args.mapping[e].targetColumn]
        /\ Len(result.data) = Len(args.data)
        /\ \A r \in 1..Len(args.data) :
              /\ Len(result.data[r]) = Len(args.mapping)
              /\ \A e \in 1..Len(args.mapping) :
                    IF args.mapping[e].sourceColumn \in Range(args.headers)
                    THEN \E c \in 1..Len(args.headers) :
                            /\ args.headers[c] = args.mapping[e].sourceColumn
                            /\ result.data[r][e] = args.data[r][c]
                    ELSE result.data[r][e] = Null

\* C13 witness: a number, read through transform none, is still the number,
\* next to a column the input does not have.
C13_Witness ==
    /\ Transformed /\ NoTransform
    /\ Len(args.data) = 2 /\ Len(args.mapping) = 2
    /\ args.mapping[1].transform = "none" /\ args.mapping[1].sourceColumn = "k"
    /\ args.mapping[2].sourceColumn = "x"
    /\ args.data[1][1] = Num("0")
    /\ result.data[1] = <<Num("0"), Null>>

CompatibilityChecked == pc = "done" /\ op = "areTypesCompatible"

\* C14: areTypesCompatible(s, t) is true when s = t, when s or t is mixed
\* or unknown, and for number, date and boolean into string and boolean
\* into number; it is false for every other ordered pair, so string into
\* number, date or boolean is false and the relation is not symmetric.
C14_CompatibilityTable ==
    CompatibilityChecked =>
        /\ result = Compatible(args.sourceType, args.targetType)
        /\ (args.sourceType = "string" /\ args.targetType \in {"number", "date", "boolean"})
              => result = FALSE
        /\ (args.targetType = "string" /\ args.sourceType \in {"number", "date", "boolean"})
              => result = TRUE

\* C14 witness: string into number is refused, although number into string
\* is accepted.
C14_Witness ==
    /\ CompatibilityChecked
    /\ args.sourceType = "string" /\ args.targetType = "number"
    /\ result = FALSE
    /\ areTypesCompatible("number", "string")

(***************************************************************************)
(* Properties of the type detector.                                        *)
(***************************************************************************)
Detected == pc = "done" /\ op = "detectColumnTypes"

\* The cells of the column, and how many of them are of a kind.
ColumnCells == [r \in 1..Len(args.rows) |-> args.rows[r][1]]

KindCount(kind) == Cardinality({r \in 1..Len(ColumnCells) : ColumnCells[r].t = kind})

NonNullCount == Cardinality({r \in 1..Len(ColumnCells) : ColumnCells[r].t # "null"})

KindPriority == <<"string", "number", "date", "boolean">>

\* The kind with the largest count, the first such kind in the priority.
DominantKind ==
    KindPriority[CHOOSE i \in 1..Len(KindPriority) :
        /\ \A j \in 1..Len(KindPriority) : KindCount(KindPriority[j]) <= KindCount(KindPriority[i])
        /\ \A j \in 1..(i - 1) : KindCount(KindPriority[j]) < KindCount(KindPriority[i])]

SameFraction(p, q) == p.num * q.den = q.num * p.den

\* Fewer than 80% of the non-null cells are of the dominant kind, and there
\* are more than 5 of them.
Overridden == KindCount(DominantKind) * 10 < 8 * NonNullCount /\ NonNullCount > 5

\* C15: for a column with non-null cells, the descriptor's type is the kind
\* with the largest count among them (ties in the priority string, number,
\* date, boolean) with confidence dominantCount / nonNullCount, overridden
\* to mixed with confidence 0.5 exactly when that confidence is below 0.8
\* and there are more than 5 non-null cells; 9 dates and 1 null give date
\* with confidence 1, 5 numbers and 5 strings give mixed with confidence 0.5.
C15_DominantType ==
    (Detected /\ NonNullCount > 0) =>
        /\ Len(result) = 1
        /\ IF Overridden
           THEN /\ result[1].type = "mixed"
                /\ SameFraction(result[1].confidence, Fraction(1, 2))
           ELSE /\ result[1].type = DominantKind
                /\ SameFraction(result[1].confidence,
                                Fraction(KindCount(DominantKind), NonNullCount))
        /\ (Len(ColumnCells) = 10 /\ KindCount("date") = 9 /\ KindCount("null") = 1)
              => (result[1].type = "date" /\ SameFraction(result[1].confidence, One))
        /\ (Len(ColumnCells) = 10 /\ KindCount("number") = 5 /\ KindCount("string") = 5)
              => (result[1].type = "mixed" /\ SameFraction(result[1].confidence, Fraction(1, 2)))

\* C15 witness: 5 numbers and 5 strings, detected as mixed.
C15_Witness ==
    /\ Detected
    /\ KindCount("number") = 5 /\ KindCount("string") = 5
    /\ result[1].type = "mixed"
    /\ result[1].confidence = Fraction(5, 10)

\* C16: the detector gives a column the type unknown with confidence 0 if
\* and only if the column has no non-null cell.
C16_UnknownIffNoValues ==
    Detected =>
        ((result[1].type = "unknown" /\ SameFraction(result[1].confidence, Fraction(0, 1)))
            <=> NonNullCount = 0)

(***************************************************************************)
(* Properties of the edit distance and of the similarity ratio.            *)
(***************************************************************************)
DistanceDone == pc = "done" /\ op = "levenshteinDistance"

SimilarityDone == pc = "done" /\ op = "calculateSimilarity"

\* The strings one insertion, deletion or substitution away from s.
Edits(s) ==
    {SubSeq(s, 1, i - 1) \o SubSeq(s, i + 1, Len(s)) : i \in 1..Len(s)}
    \cup {[s EXCEPT ![i] = c] : i \in 1..Len(s), c \in Characters}
    \cup {SubSeq(s, 1, i) \o <<c>> \o SubSeq(s, i + 1, Len(s)) :
             i \in 0..Len(s), c \in Characters}

\* The strings at most n edits away from a, none longer than bound.
RECURSIVE Within(_, _, _)
Within(a, n, bound) ==
    IF n = 0 THEN {a}
    ELSE LET near == Within(a, n - 1, bound)
         IN  near \cup {t \in UNION {Edits(s) : s \in near} : Len(t) <= bound}

Longest(a, b) == IF Len(a) >= Len(b) THEN Len(a) ELSE Len(b)

\* The minimum number of edits turning a into b (a shortest edit script
\* needs no string longer than the longer of the two).
EditDistance(a, b) ==
    CHOOSE n \in 0..Longest(a, b) :
        /\ b \in Within(a, n, Longest(a, b))
        /\ \A m \in 0..(n - 1) : b \notin Within(a, m, Longest(a, b))

\* The part of C17 that is about levenshteinDistance: it is the minimum
\* number of edits, 0 on equal strings, symmetric and at most the length of
\* the longer string.
DistanceIsMinimal ==
    DistanceDone =>
        /\ result = EditDistance(args.str1, args.str2)
        /\ args.str1 = args.str2 => result = 0
        /\ result = levenshteinDistance(args.str2, args.str1)
        /\ 0 <= result /\ result <= Longest(args.str1, args.str2)

\* The part of C17 that is about calculateSimilarity: it lies in [0, 1] and
\* is 1 on equal strings, the empty string included.
SimilarityInRange ==
    SimilarityDone =>
        /\ ~Greater(Fraction(0, 1), result)
        /\ ~Greater(result, One)
        /\ args.str1 = args.str2 => SameFraction(result, One)

\* C17: levenshteinDistance(a, b) is the minimum number of single-character
\* insertions, deletions and substitutions turning a into b, so it is 0 on
\* equal strings, symmetric, and between 0 and max(|a|, |b|); hence
\* calculateSimilarity lies in [0, 1] and is 1 on equal strings (the empty
\* string included).
C17_EditDistance == DistanceIsMinimal /\ SimilarityInRange

(***************************************************************************)
(* Properties of the mapping wizard.                                       *)
(***************************************************************************)
MergeFailed ==
    /\ op = "MappingWizard"
    /\ result.mergeResult # <<>>
    /\ result.mergeResult[1].errors # <<>>

\* C18: when mergeFiles returns a result with a non-empty errors sequence,
\* the wizard blocks: it does not go to its complete step, does not store
\* the failed dataset as a merged dataset, and does not let the user
\* continue to visualization.
C18_ErrorsBlockProgress ==
    MergeFailed =>
        /\ result.currentStep # "complete"
        /\ result.mergeResult[1].dataset \notin Range(result.datasets)
        /\ result.globalStep # "visualization"

RowsMerged == pc = "done" /\ op = "mergeRows"

\* The value a side gives at position i: null when the side is absent.
SideValue(row, i) == IF row = <<>> THEN Null ELSE row[1][i]

\* C19: the row mergeRows returns has one cell per unified header, and at
\* every position it holds the left row's value when that value is not null
\* and the right row's value otherwise; an absent side gives null.
C19_LeftWins ==
    RowsMerged =>
        /\ Len(result) = Len(args.headers)
        /\ \A i \in 1..Len(args.headers) :
              result[i] = IF SideValue(args.leftRow, i) # Null
                          THEN SideValue(args.leftRow, i)
                          ELSE SideValue(args.rightRow, i)

\* Both rows are there; at one position they hold different non-null values
\* (one of them the number 0), at another the left one holds null and the
\* right one a value.
C19_Witness ==
    /\ RowsMerged
    /\ args.leftRow # <<>> /\ args.rightRow # <<>>
    /\ \E i, j \in 1..Len(args.headers) :
          /\ args.leftRow[1][i] = Num("0") /\ args.rightRow[1][i] = Str("b")
          /\ result[i] = Num("0")
          /\ args.leftRow[1][j] = Null /\ args.rightRow[1][j] = Str("a")
          /\ result[j] = Str("a")

Succeeded == Merged /\ result.errors = <<>>

\* The files the call transforms, in mapping order, each with the headers and
\* the rows transformData gives it.
TransformedFiles == transformFiles(args.files, args.mappings)

\* The calls whose rows are concatenated: right and full, inner and left
\* without a join key, and a join key that is no unified header.
Concatenates ==
    \/ args.options.joinType \in {"right", "full"}
    \/ args.options.joinKey = <<>>
    \/ args.options.joinKey[1] \notin Range(result.dataset.headers)

\* Row r of the transformed file f under the unified headers: f's value for
\* each header f has (that of its last column of this name), null elsewhere.
PaddedRecord(f, r) ==
    [h \in Range(result.dataset.headers) |->
        IF \E c \in 1..Len(f.headers) : f.headers[c] = h
        THEN f.data[r][CHOOSE c \in 1..Len(f.headers) :
                          f.headers[c] = h /\ \A d \in (c + 1)..Len(f.headers) : f.headers[d] # h]
        ELSE Null]

PaddedRecords ==
    Flatten([i \in 1..Len(TransformedFiles) |->
                [r \in 1..Len(TransformedFiles[i].data) |->
                    PaddedRecord(TransformedFiles[i], r)]])

\* C20: in a successful merge every record of the dataset has the dataset's
\* headers as its keys, one value each; when the rows are concatenated, every
\* record is a row of one transformed file padded to the unified headers
\* (the file's value where the file has the header, null elsewhere), and with
\* handleDuplicates 'keep_first' the records are all these rows in file
\* order, up to maxRows.
C20_RecordsFollowSchema ==
    Succeeded =>
        /\ Len(result.dataset.data) = result.dataset.rowCount
        /\ \A i \in 1..Len(result.dataset.data) :
              DOMAIN result.dataset.data[i] = Range(result.dataset.headers)
        /\ Concatenates =>
              /\ \A i \in 1..Len(result.dataset.data) :
                    result.dataset.data[i] \in Range(PaddedRecords)
              /\ args.options.handleDuplicates = "keep_first" =>
                    result.dataset.data =
                        IF args.options.maxRows = <<>> THEN PaddedRecords
                        ELSE Slice(PaddedRecords, args.options.maxRows[1])

\* C20 witness: two files with different target columns are concatenated;
\* one record holds the first file's v and null under w, another the second
\* file's w and null under v.
C20_Witness ==
    /\ Succeeded
    /\ Concatenates
    /\ Len(TransformedFiles) = 2
    /\ result.dataset.headers = <<"k", "v", "w">>
    /\ \E i, j \in 1..Len(result.dataset.data) :
          /\ result.dataset.data[i] = [k |-> Str("1"), v |-> Str("a"), w |-> Null]
          /\ result.dataset.data[j] = [k |-> Str("1"), v |-> Null, w |-> Str("A")]

\* joinType right or full, or no joinKey.
ConcatenationMode ==
    \/ args.options.joinType \in {"right", "full"}
    \/ args.options.joinKey = <<>>

\* The rows of performMerge before duplicate handling, and what the join
\* added to droppedRows.
Joined == joinFiles(TransformedFiles, result.dataset.headers, args.options)

\* C21: with joinType right or full, or inner or left without a joinKey, the
\* rows before duplicate handling are the aligned rows of all transformed
\* files in mapping order, as many as totalRows, and the join drops nothing;
\* with 'keep_first' and no maxRows these are the rows of the dataset.
C21_ConcatenationKeepsAllRows ==
    (Succeeded /\ ConcatenationMode) =>
        /\ convertToRecordFormat(Joined.mergedData, result.dataset.headers) = PaddedRecords
        /\ Len(Joined.mergedData) = result.stats.totalRows
        /\ Joined.droppedRows = 0
        /\ (args.options.handleDuplicates = "keep_first" /\ args.options.maxRows = <<>>) =>
              /\ result.dataset.data = PaddedRecords
              /\ result.stats.mergedRows = result.stats.totalRows
              /\ result.stats.droppedRows = 0

\* C21 witness: the worked example under a full join on k: the left row and
\* the right row with key 1 are both kept, not combined.
C21_Witness ==
    /\ Succeeded
    /\ args \in ExampleCalls
    /\ args.options.joinType = "full" /\ args.options.joinKey = <<"k">>
    /\ args.options.handleDuplicates = "keep_first" /\ args.options.maxRows = <<>>
    /\ result.dataset.rowCount = 3
    /\ result.dataset.data[1] = [k |-> Str("1"), v |-> Str("a")]
    /\ result.dataset.data[2] = [k |-> Str("1"), v |-> Str("b")]

Deduplicated == pc = "done" /\ op = "handleDuplicates"

\* The position of the first row of the input that equals row.
FirstOccurrence(row) ==
    CHOOSE p \in 1..Len(args.data) :
        args.data[p] = row /\ \A q \in 1..(p - 1) : args.data[q] # row

NoTwoEqual == \A i, j \in 1..Len(result.data) : i < j => result.data[i] # result.data[j]

InFirstOccurrenceOrder ==
    /\ \A i \in 1..Len(result.data) : result.data[i] \in Range(args.data)
    /\ \A i, j \in 1..Len(result.data) :
          i < j => FirstOccurrence(result.data[i]) < FirstOccurrence(result.data[j])

CountsAddUp == Len(result.data) + result.duplicateRows = Len(args.data)

\* C22: with handleDuplicates 'keep_last' no two of the rows kept are equal,
\* the rows kept are in the order of their first occurrences in the input, and
\* their number plus duplicateRows is the number of input rows; with
\* 'keep_first' all rows are kept as they are and duplicateRows is 0.
C22_KeepLastDeduplicates ==
    Deduplicated =>
        /\ args.handleDuplicates = "keep_last" =>
              NoTwoEqual /\ InFirstOccurrenceOrder /\ CountsAddUp
        /\ args.handleDuplicates = "keep_first" =>
              result.data = args.data /\ result.duplicateRows = 0

\* What the same call gives with handleDuplicates 'keep_last'.
KeepLastResult ==
    [data |-> handleDuplicates(args.data, "keep_last").data,
     duplicateRows |-> handleDuplicates(args.data, "keep_last").duplicatesRemoved]

\* C23: duplicate handling with 'merge_values' gives the rows, in the same
\* order, and the duplicate count that 'keep_last' gives on the same rows.
C23_MergeValuesAsKeepLast ==
    (Deduplicated /\ args.handleDuplicates = "merge_values") => result = KeepLastResult

MergedTyped == pc = "done" /\ op = "DataMerger.detectColumnTypes"

\* What the detector of the file parsers returns for the same column.
FileLevelTypes == detectColumnTypes(args.headers, args.rows)

\* C24: for every column of the merged rows DataMerger.detectColumnTypes
\* returns the type and the confidence that the file-level detectColumnTypes
\* returns for that column.
C24_SameTypeDetection ==
    MergedTyped =>
        \A i \in 1..Len(args.headers) :
            /\ result[i].type = FileLevelTypes[i].type
            /\ SameFraction(result[i].confidence, FileLevelTypes[i].confidence)

\* exact before fuzzy before semantic.
KindRank(matchType) ==
    CASE matchType = "exact" -> 1 [] matchType = "fuzzy" -> 2 [] matchType = "semantic" -> 3

\* C25: findMatches(source, limit) returns at most limit suggestions, no two
\* with the same targetColumn, in non-increasing order of similarity, and
\* suggestions of equal similarity in the order exact, fuzzy, semantic.
C25_RankedSuggestions ==
    Matched =>
        /\ Len(result) <= args.limit
        /\ \A i, j \in 1..Len(result) :
              i < j =>
                 /\ result[i].targetColumn # result[j].targetColumn
                 /\ ~Greater(result[j].similarity, result[i].similarity)
                 /\ SameFraction(result[i].similarity, result[j].similarity)
                       => KindRank(result[i].matchType) <= KindRank(result[j].matchType)

\* C25 witness: an exact and a fuzzy suggestion of the same similarity are
\* returned, the exact one first.
C25_Witness ==
    /\ Matched
    /\ Len(result) = 2
    /\ result[1].matchType = "exact" /\ result[2].matchType = "fuzzy"
    /\ SameFraction(result[1].similarity, result[2].similarity)

\* C26: the lookup key of a row is the string form of its join-key cell, the
\* empty string for a missing cell only: every row of an inner join combines
\* a left and a right row whose join-key values have the same string form,
\* and a left join keeps one row for every left join-key value, so that a
\* row with the key 0 and a row with a missing key are never taken together.
C26_OnlyMissingKeyIsEmpty ==
    /\ JoinedOnKey("inner") =>
          \A o \in Range(result.dataset.data) :
             \E i \in 1..Len(Left), j \in 1..Len(Right) :
                /\ KeyValue(Left[i][1]) = KeyValue(Right[j][1])
                /\ o = AsRecord(Overlay(Left[i], Right[j]))
    /\ (JoinedOnKey("left") /\ args.options.handleDuplicates = "keep_first") =>
          Len(result.dataset.data) = Cardinality(KeyValues(Left))

\* The null cells of a sequence of records.
NullsIn(records) ==
    SumSeq([r \in 1..Len(records) |->
               Cardinality({h \in DOMAIN records[r] : records[r][h] = Null})])

RowCountsAgree ==
    /\ result.stats.mergedRows = result.dataset.rowCount
    /\ result.stats.mergedRows = Len(result.dataset.data)

\* C27 as stated: in every merge result nullValues is the number of null
\* cells in the rows of the dataset the result returns, and mergedRows is the
\* dataset's rowCount and its number of records.
C27_Original ==
    Merged => (result.stats.nullValues = NullsIn(result.dataset.data) /\ RowCountsAgree)

\* C27 amended: mergedRows is the dataset's rowCount and its number of
\* records; nullValues counts the null cells of the merged rows after
\* duplicate handling and before the row cap: it is the number of null cells
\* of the returned rows when maxRows cuts no row, at least that number
\* otherwise, and with 'keep_first' in the concatenating modes the number of
\* null cells of all aligned rows, whatever maxRows is.
C27_NullsCountedBeforeCap ==
    Merged =>
        /\ RowCountsAgree
        /\ result.stats.nullValues >= NullsIn(result.dataset.data)
        /\ (\/ args.options.maxRows = <<>>
            \/ result.stats.mergedRows < args.options.maxRows[1])
              => result.stats.nullValues = NullsIn(result.dataset.data)
        /\ (Succeeded /\ ConcatenationMode /\ args.options.handleDuplicates = "keep_first")
              => result.stats.nullValues = NullsIn(PaddedRecords)

\* C27 witness: maxRows cut a row that held nulls: nullValues counts more
\* null cells than the returned rows have.
C27_Witness ==
    /\ Succeeded
    /\ args.options.maxRows = <<1>>
    /\ result.stats.mergedRows = 1
    /\ result.stats.totalRows = 2
    /\ NullsIn(result.dataset.data) = 0
    /\ result.stats.nullValues = 2

\* performMerge completed successfully: a result without errors is set and
\* the wizard is on its complete step.
MergeCompleted ==
    /\ op = "MappingWizard"
    /\ result.mergeResult # <<>>
    /\ result.mergeResult[1].errors = <<>>
    /\ result.currentStep = "complete"

\* The Next / 'Continue to Visualization' button is enabled.
ContinueEnabled == canProceed(result) /\ ~result.isProcessing

\* The Previous button is enabled.
PreviousEnabled == currentStepIndex(result) # 1 /\ ~result.isProcessing

\* C28: once performMerge has completed successfully and the wizard is on
\* its complete step, the 'Continue to Visualization' control is eventually
\* enabled.
C28_ContinueEventuallyEnabled == MergeCompleted ~> ContinueEnabled

\* C29: in every merge result the five statistics are non-negative and
\* mergedRows + droppedRows + duplicateRows is at most totalRows, whatever the
\* join type, the join key, the duplicate strategy and maxRows.
C29_RowsAccountedOnce ==
    Merged =>
        /\ \A s \in DOMAIN result.stats : result.stats[s] >= 0
        /\ result.stats.mergedRows + result.stats.droppedRows + result.stats.duplicateRows
              <= result.stats.totalRows

\* The join-key values of the rows, each once, in the order of their first
\* occurrences.
RECURSIVE DistinctKeyValues(_)
DistinctKeyValues(rows) ==
    IF rows = <<>> THEN <<>>
    ELSE LET before == DistinctKeyValues(SubSeq(rows, 1, Len(rows) - 1))
             last == KeyValue(rows[Len(rows)][1])
         IN  IF last \in Range(before) THEN before ELSE Append(before, last)

\* The last of the rows with this join-key value.
LastWithKey(rows, value) ==
    rows[CHOOSE i \in 1..Len(rows) :
            /\ KeyValue(rows[i][1]) = value
            /\ \A j \in (i + 1)..Len(rows) : KeyValue(rows[j][1]) # value]

\* C30: in a left key-based join the result has one row for every distinct
\* left join-key value, at the position of the value's first occurrence and
\* made of the last left row with it (and of the last right row with it, if
\* any); the earlier rows with the value are counted neither in droppedRows
\* nor in duplicateRows.
C30_LastRowOfAKeyWins ==
    (JoinedOnKey("left") /\ args.options.handleDuplicates = "keep_first") =>
        /\ Len(result.dataset.data) = Len(DistinctKeyValues(Left))
        /\ \A p \in 1..Len(result.dataset.data) :
              p <= Len(DistinctKeyValues(Left)) =>
                 LET value == DistinctKeyValues(Left)[p]
                 IN  result.dataset.data[p] =
                        IF value \in KeyValues(Right)
                        THEN AsRecord(Overlay(LastWithKey(Left, value), LastWithKey(Right, value)))
                        ELSE AsRecord(LastWithKey(Left, value))
        /\ result.stats.droppedRows = 0
        /\ result.stats.duplicateRows = 0

====
